---- MODULE Spec2Model ----
(***************************************************************************)
(* Download orchestration of the media player: DownloadTask               *)
(* (app/models/download_task.py), JellyfinService's download worker,      *)
(* cancel, persistence and resume (app/services/jellyfin_service.py) and  *)
(* MediaManager's download queue, polling and completion handler          *)
(* (app/services/media_manager.py).                                       *)
(*                                                                         *)
(* Granularity.  Threads share DownloadTask objects without a lock.  The   *)
(* methods of DownloadTask are straight-line attribute stores and are      *)
(* taken as one step each; every call that blocks or that lies between two *)
(* reads/writes of shared state (network reads, file operations, the gap   *)
(* between is_active() and mark_failed() in cancel_download, the gap       *)
(* between the status test and mark_completed() in the worker) is a        *)
(* separate step, so other threads interleave there.                       *)
(*                                                                         *)
(* Sizes are counted in abstract units: a chunk carries 1..MaxChunk units. *)
(* progress is the exact fraction <<numerator, denominator>>.              *)
(***************************************************************************)
EXTENDS Integers, FiniteSets, Sequences, TLC

\* ---------------------------------------------------------------- bounds
MaxLen == 2
MaxChunk == 2
MaxRestarts == 1
\* get_media_library: the page size (limit, 200 in the source) and the page
\* count of the safety check (1000 in the source)
PageSize == 2
MaxPages == 5
max_page_retries == 3
\* _merge_and_deduplicate: the longest list of one source
MaxItems == 3
\* the clock (in units of which _validation_cache_ttl, 300 s in the source,
\* is ValidationTtl) and the validate_file_existence calls made
MaxTime == 3
ValidationTtl == 2
MaxCalls == 3
\* the progress tracker: the size of a subscriber queue (maxsize, 50 in the
\* source) and the snapshots published
QueueSize == 1
MaxEvents == 3
_cache_ttl == 1
MaxScans == 2

\* The task ids uuid4 hands out, in the order it hands them out; the request
\* threads of the web server.
TaskIds == {1, 2}
NoId == 0
Requests == {1, 2}
NoOne == 0

\* ------------------------------------------------------ values of fields
None == "None"
PENDING == "pending"
DOWNLOADING == "downloading"
COMPLETED == "completed"
FAILED == "failed"

JellyfinIds == {"r1"}
FinalDestinations == {None, "/media/movies"}

\* What the code observes of a file: os.path.exists and os.path.getsize > 0.
Absent == "absent"
Empty == "empty"
NonEmpty == "nonempty"

\* MediaItem.id of a remote item: f"jellyfin_{jellyfin_id}".
ItemId(j) == CASE j = "r1" -> "jellyfin_r1"

\* destination_path = os.path.join(destination_dir, filename), with the
\* default destination_dir "media/downloads".
Destination(j) == CASE j = "r1" -> "media/downloads/r1.mp4"

\* os.path.join(final_destination, os.path.basename(file_path)).
FinalPath(dir, path) ==
    CASE dir = "/media/movies" /\ path = "media/downloads/r1.mp4"
            -> "/media/movies/r1.mp4"
      [] dir = "/media/movies" /\ path = "/media/movies/r1.mp4"
            -> "/media/movies/r1.mp4"

\* Initial responses of the download request that end the transfer.
Unauthorized ==
    "Authentication failed - invalid API key or insufficient permissions"

ResponseErrors ==
    {Unauthorized, "Media item not found or not available for download",
     "Download timeout"}

\* ------------------------------------------------------------- progress
Zero == <<0, 1>>
One == <<1, 1>>

\* downloaded_size / total_size as a float: 0.0 and 1.0 are single values.
Ratio(n, d) ==
    IF n = 0 THEN Zero ELSE IF n = d THEN One ELSE <<n, d>>

\* ---------------------------------------------------------- DownloadTask
DownloadTask(media_id, file_path) ==
    [media_id |-> media_id, status |-> PENDING, progress |-> Zero,
     file_path |-> file_path, error_message |-> None,
     final_destination |-> None, completion_callback |-> FALSE]

is_active(task) == task.status \in {PENDING, DOWNLOADING}

is_finished(task) == task.status \in {COMPLETED, FAILED}

\* update_progress raises ValueError outside [0.0, 1.0].
ProgressInRange(p) == p[1] >= 0 /\ p[1] <= p[2]

update_progress(task, p) ==
    LET t1 == [task EXCEPT !.progress = p]
    IN  IF p = One /\ t1.status = DOWNLOADING
        THEN [t1 EXCEPT !.status = COMPLETED]
        ELSE IF p[1] > 0 /\ t1.status = PENDING
             THEN [t1 EXCEPT !.status = DOWNLOADING]
             ELSE t1

mark_completed(task, file_path) ==
    [task EXCEPT !.status = COMPLETED, !.progress = One,
                 !.file_path = file_path, !.error_message = None]

\* mark_failed without its second assignment.
mark_failed_status_only(task, error_message) ==
    [task EXCEPT !.status = FAILED]

mark_failed(task, error_message) ==
    [task EXCEPT !.status = FAILED, !.error_message = error_message]

\* ----------------------------------------------------------------- state
VARIABLES
    authenticated,      \* JellyfinService.authenticated
    tasks,              \* the DownloadTask objects, by task_id
    _download_tasks,    \* JellyfinService._download_tasks (its keys)
    _download_threads,  \* JellyfinService._download_threads (its keys)
    _download_queue,    \* MediaManager._download_queue (its keys)
    _download_lock,     \* the request thread holding MediaManager._download_lock
    saved_state,        \* the pickled download state file
    fs,                 \* the file at each path: Absent, Empty or NonEmpty
    worker,             \* the worker thread of each task
    req,                \* the request threads
    cleanup_threads,    \* tasks with a scheduled cleanup_completed_task thread
    completions,        \* per task: runs of the completion chain, cache clears
    cancelled,          \* tasks for which cancel_download has returned True
    last_start,         \* per media id: task_id the last finished start returned
    unused_ids,         \* the task ids uuid4 has not handed out yet
    restarts,           \* process restarts so far
    fetch,              \* the locals of the get_media_library call
    media_items,        \* get_media_library: the converted items so far
    metadata,           \* get_media_library: the metadata dict
    served,             \* what the remote source answered, page by page
    local_media,        \* _merge_and_deduplicate: the local list passed
    remote_media,       \* _merge_and_deduplicate: the remote list passed
    unified_media,      \* _merge_and_deduplicate: the list returned
    now,                \* time.time()
    local_media_db,     \* the file_path column of the local_media table
    _validation_cache,  \* LocalMediaService._validation_cache (0: no entry)
    _validation_stats,  \* LocalMediaService._validation_stats
    local_items,        \* the LocalMediaItem object of each path
    validations,        \* the last validate_file_existence call, if any
    last_check,         \* per path: time and outcome of its last stat
    fs_touched,         \* the filesystem changed since the last call
    active_downloads,   \* download_progress.active_downloads (status by task)
    progress_subscribers, \* download_progress.progress_subscribers
    subscriber_queue,   \* the queue.Queue of each subscriber
    progress_lock,      \* the thread holding download_progress.progress_lock
    notifier,           \* per thread: its _notify_subscribers call
    published,          \* snapshots published so far
    run,                \* per worker thread: its task and whether it returned
    last_put,           \* per subscriber and task: the last snapshot put
    _unified_media_cache,     \* MediaManager._unified_media_cache
    _cache_timestamp,         \* MediaManager._cache_timestamp
    _local_media_cache,       \* MediaManager._local_media_cache
    _local_cache_timestamp,   \* MediaManager._local_cache_timestamp
    _remote_media_cache,      \* MediaManager._remote_media_cache
    _remote_cache_timestamp,  \* MediaManager._remote_cache_timestamp
    _jellyfin_sync_requested, \* MediaManager._jellyfin_sync_requested
    returned,           \* the last list a MediaManager getter returned
    local_scan,         \* scans recorded in the local store so far
    handled,            \* local_scan as of the last cache invalidation
    refresh,            \* a get_local_media_with_validation call under way
    handler,            \* the completion handler between scan and clear
    orphans,            \* threads of a replaced JellyfinService still running
    pool_fs,            \* per path: os.path.isfile, as the pool's checks see it
    pool_cache,         \* _validation_cache during one call, file by file
    pool_checked,       \* per path: the outcome of its most recent check
    pool,               \* a validate_file_existence call and its results
    single,             \* per thread: its _validate_single_file call
    lock_owner,         \* per lock: the thread holding it and how many times
    thread_op           \* per thread: the operation it runs and how far it is

download_vars ==
    <<authenticated, tasks, _download_tasks, _download_threads, _download_queue,
      _download_lock, saved_state, fs, worker, req, cleanup_threads,
      completions, cancelled, last_start, unused_ids, restarts>>

\* The state of the catalogue side: the remote fetch.
fetch_vars == <<fetch, media_items, metadata, served>>

merge_vars == <<local_media, remote_media, unified_media>>

validate_vars ==
    <<local_media_db, _validation_cache, _validation_stats, local_items,
      validations, last_check, fs_touched>>

tracker_vars ==
    <<active_downloads, progress_subscribers, subscriber_queue, progress_lock,
      notifier, published, run, last_put>>

cache_vars ==
    <<_unified_media_cache, _cache_timestamp, _local_media_cache,
      _local_cache_timestamp, _remote_media_cache, _remote_cache_timestamp,
      _jellyfin_sync_requested, returned, local_scan, handled, refresh,
      handler>>

pool_vars == <<pool_fs, pool_cache, pool_checked, pool, single>>

lock_vars == <<lock_owner, thread_op>>

catalog_vars ==
    <<fetch_vars, merge_vars, validate_vars, now, tracker_vars, cache_vars,
      orphans, pool_vars, lock_vars>>

\* What a step of one part leaves alone of the other parts.
beside_fetch ==
    <<merge_vars, validate_vars, now, tracker_vars, cache_vars, orphans,
      pool_vars, lock_vars>>
beside_merge ==
    <<download_vars, fetch_vars, validate_vars, now, tracker_vars, cache_vars,
      orphans, pool_vars, lock_vars>>
beside_tracker ==
    <<download_vars, fetch_vars, merge_vars, validate_vars, now, cache_vars,
      orphans, pool_vars, lock_vars>>
beside_cache ==
    <<download_vars, fetch_vars, merge_vars, validate_vars, tracker_vars,
      orphans, pool_vars, lock_vars>>
beside_reload ==
    <<fetch_vars, merge_vars, validate_vars, now, tracker_vars, cache_vars,
      pool_vars, lock_vars>>
beside_validate ==
    <<authenticated, tasks, _download_tasks, _download_threads, _download_queue,
      _download_lock, saved_state, worker, req, cleanup_threads, completions,
      cancelled, last_start, unused_ids, restarts, fetch_vars, merge_vars,
      tracker_vars, cache_vars, orphans, pool_vars, lock_vars>>
beside_pool ==
    <<download_vars, fetch_vars, merge_vars, validate_vars, now, tracker_vars,
      cache_vars, orphans, lock_vars>>
beside_locks ==
    <<download_vars, fetch_vars, merge_vars, validate_vars, now, tracker_vars,
      cache_vars, orphans, pool_vars>>

vars == <<download_vars, catalog_vars>>

\* History of a worker: `late` is the number of chunks it has written since
\* cancel_download marked its DOWNLOADING task failed (-1 before).
NoWorker ==
    [pc |-> "none", destination |-> None, total_size |-> 0,
     downloaded_size |-> 0, last_progress_update |-> 0, handle |-> FALSE,
     outcome |-> "none", late |-> -1]

Idle ==
    [op |-> "idle", pc |-> "idle", media |-> None, final |-> None,
     task |-> NoId, todo |-> {}, previous_status |-> None]

InitWith(ids) ==
    /\ unused_ids = ids
    /\ authenticated = FALSE
    /\ tasks = <<>>
    /\ _download_tasks = {}
    /\ _download_threads = {}
    /\ _download_queue = {}
    /\ _download_lock = NoOne
    /\ saved_state = <<>>
    /\ fs = [p \in {Destination(j) : j \in JellyfinIds} \cup
                   {FinalPath(d, Destination(j)) :
                       d \in FinalDestinations \ {None}, j \in JellyfinIds}
               |-> Absent]
    /\ worker = [t \in TaskIds |-> NoWorker]
    /\ req = [r \in Requests |-> Idle]
    /\ cleanup_threads = {}
    /\ completions = [t \in TaskIds |-> [started |-> 0, cleared |-> 0]]
    /\ cancelled = {}
    /\ last_start = [j \in JellyfinIds |-> NoId]
    /\ restarts = 0

exists(path) == path # None /\ fs[path] # Absent

\* os.path.exists(path) and os.path.getsize(path) > 0
nonempty(path) == exists(path) /\ fs[path] = NonEmpty

\* os.remove / shutil.move away from `path`: the name is gone, and a worker
\* that still has the file open keeps writing to the unlinked file.
Unlinked(w, path) ==
    [t \in TaskIds |->
        IF w[t].destination = path THEN [w[t] EXCEPT !.handle = FALSE] ELSE w[t]]

\* ------------------------------------------- JellyfinService._download_worker
\* threading.Thread(target=_download_worker_with_progress, args=(task, media_id,
\* destination)).start()
NewWorker(destination) ==
    [NoWorker EXCEPT !.pc = "request", !.destination = destination]

\* session.get(...) up to open(destination, 'wb'): an error response or a
\* request exception marks the task failed; otherwise the declared length is
\* read, the task is set to DOWNLOADING with progress 0.0 and the file is
\* created (truncated).
WorkerRequest(t) ==
    /\ worker[t].pc = "request"
    /\ UNCHANGED catalog_vars
    /\ \/ \E msg \in ResponseErrors :
            /\ tasks' = [tasks EXCEPT ![t] = mark_failed(@, msg)]
            /\ worker' = [worker EXCEPT ![t].pc = "finally",
                                        ![t].outcome = "response_error"]
            /\ fs' = fs
       \/ \E total \in 0 .. MaxLen :
            /\ tasks' = [tasks EXCEPT
                   ![t] = update_progress([@ EXCEPT !.status = DOWNLOADING], Zero)]
            /\ fs' = [fs EXCEPT ![worker[t].destination] = Empty]
            /\ worker' = [worker EXCEPT ![t].pc = "check",
                                        ![t].total_size = total,
                                        ![t].handle = TRUE]
    /\ UNCHANGED <<authenticated, _download_tasks, _download_threads,
                   _download_queue, _download_lock, saved_state, req,
                   cleanup_threads, completions, cancelled, last_start, unused_ids, restarts>>

\* The cancellation checks around each chunk (the check after a chunk and the
\* one before the next read see the same status unless another thread moves).
WorkerCheck(t) ==
    /\ worker[t].pc = "check"
    /\ UNCHANGED catalog_vars
    /\ worker' = [worker EXCEPT
           ![t].pc = IF tasks[t].status = FAILED THEN "finally"
                     ELSE IF tasks[t].status = COMPLETED THEN "validate"
                     ELSE "chunk",
           ![t].handle = IF tasks[t].status \in {FAILED, COMPLETED}
                         THEN FALSE ELSE @,
           ![t].outcome = IF tasks[t].status = FAILED THEN "cancelled" ELSE @]
    /\ UNCHANGED <<authenticated, tasks, _download_tasks, _download_threads,
                   _download_queue, _download_lock, saved_state, fs, req,
                   cleanup_threads, completions, cancelled, last_start, unused_ids, restarts>>

\* An exception inside the streaming loop (chunk read, write, or the ValueError
\* of update_progress): the worker returns if the task is already FAILED or
\* COMPLETED, otherwise the exception is re-raised to the outer handlers, which
\* mark the task failed.  `downloaded` is downloaded_size when it is raised.
StreamException(t, msg, outcome, downloaded) ==
    /\ tasks' = [tasks EXCEPT
           ![t] = IF @.status \in {FAILED, COMPLETED} THEN @ ELSE mark_failed(@, msg)]
    /\ worker' = [worker EXCEPT
           ![t].pc = "finally",
           ![t].handle = FALSE,
           ![t].downloaded_size = downloaded,
           ![t].late = IF @ >= 0 /\ downloaded > worker[t].downloaded_size
                       THEN @ + 1 ELSE @,
           ![t].outcome = IF tasks[t].status = FAILED THEN "cancelled" ELSE outcome]

\* progress_changed or time_elapsed or current_progress >= 1.0, with
\* progress_update_threshold = 0.001.
ShouldUpdate(w, downloaded, time_elapsed) ==
    \/ (downloaded - w.last_progress_update) * 1000 >= w.total_size
    \/ time_elapsed
    \/ downloaded >= w.total_size

\* next(content_iterator), f.write(chunk) and the throttled progress update.
WorkerChunk(t) ==
    /\ worker[t].pc = "chunk"
    /\ UNCHANGED catalog_vars
    /\ \/ \* StopIteration: end of stream
          /\ worker' = [worker EXCEPT ![t].pc = "validate", ![t].handle = FALSE]
          /\ UNCHANGED <<tasks, fs>>
       \/ /\ StreamException(t, "Download connection error", "error",
                             worker[t].downloaded_size)
          /\ fs' = fs
       \/ \E n \in 1 .. MaxChunk, time_elapsed \in BOOLEAN :
            LET w == worker[t]
                downloaded == w.downloaded_size + n
                written == IF w.handle
                           THEN [fs EXCEPT ![w.destination] = NonEmpty] ELSE fs
                update == w.total_size > 0
                            /\ ShouldUpdate(w, downloaded, time_elapsed)
                current_progress == Ratio(downloaded, w.total_size)
            IN  \* a stream carries at most one unit more than the largest
                \* declared length
                /\ downloaded <= MaxLen + 1
                /\ IF update /\ ~ProgressInRange(current_progress)
                   THEN /\ StreamException(t, "Download error: ValueError", "overrun",
                                        downloaded)
                        /\ fs' = written
                   ELSE /\ fs' = written
                        /\ tasks' = IF update
                              THEN [tasks EXCEPT
                                      ![t] = update_progress(@, current_progress)]
                              ELSE tasks
                        /\ worker' = [worker EXCEPT
                              ![t].pc = "check",
                              ![t].downloaded_size = downloaded,
                              ![t].late = IF @ < 0 THEN @ ELSE @ + 1,
                              ![t].last_progress_update =
                                  IF update THEN downloaded ELSE @]
    /\ UNCHANGED <<authenticated, _download_tasks, _download_threads,
                   _download_queue, _download_lock, saved_state, req,
                   cleanup_threads, completions, cancelled, last_start, unused_ids, restarts>>

\* After the loop: a task found FAILED returns, a task found COMPLETED (by
\* update_progress) has its file verified, any other goes on to be validated.
WorkerValidate(t) ==
    /\ worker[t].pc = "validate"
    /\ UNCHANGED catalog_vars
    /\ LET task == tasks[t]
           verified == nonempty(worker[t].destination)
       IN  IF task.status = FAILED
           THEN /\ worker' = [worker EXCEPT ![t].pc = "finally",
                                            ![t].outcome = "cancelled"]
                /\ tasks' = tasks
           ELSE IF task.status = COMPLETED
           THEN /\ worker' = [worker EXCEPT
                       ![t].pc = "finally",
                       ![t].outcome = IF verified THEN "ok" ELSE "unverified"]
                /\ tasks' = IF verified
                      THEN [tasks EXCEPT ![t].file_path =
                              IF @ = None THEN worker[t].destination ELSE @]
                      ELSE [tasks EXCEPT ![t] = mark_failed(@,
                              "Download verification failed: File missing or empty after completion")]
           ELSE /\ worker' = [worker EXCEPT ![t].pc = "finalize"]
                /\ tasks' = tasks
    /\ UNCHANGED <<authenticated, _download_tasks, _download_threads,
                   _download_queue, _download_lock, saved_state, fs, req,
                   cleanup_threads, completions, cancelled, last_start, unused_ids, restarts>>

\* "Download finished but not yet marked as completed - validate and complete".
WorkerFinalize(t) ==
    /\ worker[t].pc = "finalize"
    /\ UNCHANGED catalog_vars
    /\ LET w == worker[t]
           present == nonempty(w.destination)
           download_successful ==
               IF w.total_size > 0 THEN w.downloaded_size >= w.total_size
               ELSE present
       IN  /\ tasks' = [tasks EXCEPT ![t] =
                 IF download_successful
                 THEN IF present THEN mark_completed(@, w.destination)
                      ELSE mark_failed(@,
                        "Download verification failed: File missing or empty after completion")
                 ELSE IF w.total_size > 0
                      THEN mark_failed(@, "Download incomplete")
                      ELSE mark_failed(@,
                        "Download failed: No content received or file is empty")]
           /\ worker' = [worker EXCEPT
                 ![t].pc = "finally",
                 ![t].outcome =
                     IF download_successful
                     THEN IF present THEN "ok" ELSE "unverified"
                     ELSE IF w.total_size > 0 THEN "incomplete" ELSE "empty"]
    /\ UNCHANGED <<authenticated, _download_tasks, _download_threads,
                   _download_queue, _download_lock, saved_state, fs, req,
                   cleanup_threads, completions, cancelled, last_start, unused_ids, restarts>>

\* finally: the partial file is removed unless the task is COMPLETED, and the
\* thread reference is dropped.
\* The cleanup test with the partial file kept unless the task was cancelled.
CleansUp_cancelled_only(task, destination) ==
    /\ task.status = FAILED
    /\ task.error_message = "Download cancelled by user"
    /\ exists(destination)

\* "Clean up partial download on failure/error/cancellation"
CleansUp(task, destination) ==
    task.status # COMPLETED /\ exists(destination)

WorkerFinally(t) ==
    /\ worker[t].pc = "finally"
    /\ UNCHANGED catalog_vars
    /\ LET dest == worker[t].destination
           remove == CleansUp(tasks[t], dest)
           w1 == IF remove THEN Unlinked(worker, dest) ELSE worker
       IN  /\ fs' = IF remove THEN [fs EXCEPT ![dest] = Absent] ELSE fs
           /\ worker' = [w1 EXCEPT ![t].pc = "callback"]
    /\ _download_threads' = _download_threads \ {t}
    /\ UNCHANGED <<authenticated, tasks, _download_tasks, _download_queue,
                   _download_lock, saved_state, req, cleanup_threads,
                   completions, cancelled, last_start, unused_ids, restarts>>

\* ------------------------------- MediaManager._handle_download_completion
\* The file check, the move to final_destination (shutil.move may fail: the
\* handler goes on with the original path), then scan_media_directories, the
\* cache clears and the poster download (an exception in any of them is caught
\* and logged).  A writer that still has the moved file open is treated as
\* detached; only existence and emptiness of files are observed, which its
\* further writes cannot change.
HandlerFound(task) == exists(task.file_path)

HandlerMoves(task, move_ok) ==
    HandlerFound(task) /\ task.final_destination # None /\ move_ok

\* The move with a failure of shutil.move recorded on the task.
Moved_or_failed(task, move_ok) ==
    IF HandlerMoves(task, move_ok)
    THEN [task EXCEPT !.file_path = FinalPath(task.final_destination, @)]
    ELSE IF HandlerFound(task) /\ task.final_destination # None
    THEN mark_failed(task, "Failed to move file to final destination")
    ELSE task

Moved(task, move_ok) ==
    IF HandlerMoves(task, move_ok)
    THEN [task EXCEPT !.file_path = FinalPath(task.final_destination, @)]
    ELSE task

_handle_download_completion(t, move_ok, scan_ok) ==
    LET task == tasks[t]
        src == task.file_path
        final_file_path == Moved(task, move_ok).file_path
    IN  /\ tasks' = [tasks EXCEPT ![t] = Moved(task, move_ok)]
        /\ fs' = IF HandlerMoves(task, move_ok) /\ src # final_file_path
                 THEN [fs EXCEPT ![final_file_path] = fs[src], ![src] = Absent]
                 ELSE fs
        /\ completions' = IF HandlerFound(task)
              THEN [completions EXCEPT
                      ![t].started = @ + 1,
                      ![t].cleared = IF scan_ok THEN @ + 1 ELSE @]
              ELSE completions

\* ------------------------------ JellyfinService._download_worker_with_progress
\* _save_download_state keeping the active tasks only.
SaveState_active_only(ts, ids) ==
    [t \in {u \in ids : is_active(ts[u])}
        |-> [ts[t] EXCEPT !.completion_callback = FALSE]]

\* _save_download_state: active and COMPLETED tasks, without their callbacks.
SaveState(ts, ids) ==
    [t \in {u \in ids : is_active(ts[u]) \/ ts[u].status = COMPLETED}
        |-> [ts[t] EXCEPT !.completion_callback = FALSE]]

\* After _download_worker has returned: task._completion_callback(task) if the
\* task carries one, then "Save download state after completion"; the thread
\* ends.
WorkerCallback(t) ==
    /\ worker[t].pc = "callback"
    /\ UNCHANGED catalog_vars
    /\ IF tasks[t].completion_callback
       THEN \E move_ok \in BOOLEAN, scan_ok \in BOOLEAN :
              /\ _handle_download_completion(t, move_ok, scan_ok)
              /\ worker' = [IF HandlerMoves(tasks[t], move_ok)
                            THEN Unlinked(worker, tasks[t].file_path) ELSE worker
                              EXCEPT ![t] = [NoWorker EXCEPT !.pc = "done"]]
       ELSE /\ worker' = [worker EXCEPT ![t] = [NoWorker EXCEPT !.pc = "done"]]
            /\ UNCHANGED <<tasks, fs, completions>>
    /\ saved_state' = SaveState(tasks', _download_tasks)
    /\ UNCHANGED <<authenticated, _download_tasks, _download_threads,
                   _download_queue, _download_lock, req, cleanup_threads,
                   cancelled, last_start, unused_ids, restarts>>

\* ------------------------------------------------------------ request side
Min(S) == CHOOSE x \in S : \A y \in S : x <= y

\* Ids are allotted only while one is left for every call about to create a
\* task.
IdLeft ==
    Cardinality(unused_ids) > Cardinality({q \in Requests : req[q].pc = "s_create"})

LockFree == _download_lock = NoOne

\* "Check if already downloading" of MediaManager.download_media, comparing
\* task.media_id with the MediaItem id.
QueuedActive(media_id) ==
    {t \in _download_queue : tasks[t].media_id = media_id /\ is_active(tasks[t])}

\* The duplicate check looking at PENDING tasks only.
ExistingActive_pending(media_id) ==
    {t \in _download_tasks :
        tasks[t].media_id = media_id /\ tasks[t].status = PENDING}

\* "Check if this media is already being downloaded" of
\* JellyfinService.download_media.
ExistingActive(media_id) ==
    {t \in _download_tasks : tasks[t].media_id = media_id /\ is_active(tasks[t])}

\* MediaManager.download_media up to the duplicate check of
\* JellyfinService.download_media.  An unauthenticated service hands back a
\* new FAILED task; an existing active task is handed back as it is.
StartCheck(r, j, final) ==
    /\ req[r].pc = "idle"
    /\ UNCHANGED catalog_vars
    /\ LockFree
    /\ LET begun == [Idle EXCEPT !.op = "start", !.media = j, !.final = final]
       IN  IF QueuedActive(ItemId(j)) # {}
           THEN \* "Media already downloading": that task is returned at once
                /\ last_start' = [last_start EXCEPT
                                    ![j] = Min(QueuedActive(ItemId(j)))]
                /\ UNCHANGED <<req, tasks, unused_ids>>
           ELSE IF ~authenticated
           THEN /\ IdLeft
                /\ tasks' = tasks @@ (Min(unused_ids) :> mark_failed(
                      DownloadTask(j, None), "Not authenticated with Jellyfin server"))
                /\ req' = [req EXCEPT ![r] =
                      [begun EXCEPT !.pc = "s_finish", !.task = Min(unused_ids)]]
                /\ unused_ids' = unused_ids \ {Min(unused_ids)}
                /\ last_start' = last_start
           ELSE IF ExistingActive(j) # {}
           THEN /\ req' = [req EXCEPT ![r] =
                      [begun EXCEPT !.pc = "s_finish",
                                    !.task = Min(ExistingActive(j))]]
                /\ UNCHANGED <<tasks, last_start, unused_ids>>
           ELSE /\ IdLeft
                /\ req' = [req EXCEPT ![r] = [begun EXCEPT !.pc = "s_create"]]
                /\ UNCHANGED <<tasks, last_start, unused_ids>>
    /\ UNCHANGED <<authenticated, _download_tasks, _download_threads,
                   _download_queue, _download_lock, saved_state, fs, worker,
                   cleanup_threads, completions, cancelled, restarts>>

\* "Create download task" to download_thread.start().
StartCreate(r) ==
    /\ req[r].pc = "s_create"
    /\ UNCHANGED catalog_vars
    /\ unused_ids # {}
    /\ LET t == Min(unused_ids)
           j == req[r].media
           task == [DownloadTask(j, Destination(j)) EXCEPT
                       !.completion_callback = TRUE]
       IN  /\ tasks' = tasks @@ (t :> task)
           /\ _download_tasks' = _download_tasks \cup {t}
           /\ saved_state' = SaveState(tasks', _download_tasks')
           /\ worker' = [worker EXCEPT ![t] = NewWorker(Destination(j))]
           /\ _download_threads' = _download_threads \cup {t}
           /\ req' = [req EXCEPT ![r].pc = "s_finish", ![r].task = t]
           /\ unused_ids' = unused_ids \ {t}
    /\ UNCHANGED <<authenticated, _download_queue, _download_lock, fs,
                   cleanup_threads, completions, cancelled, last_start, restarts>>

\* Back in MediaManager.download_media: final_destination is attached to the
\* returned task and the task is entered in the queue.
StartFinish(r) ==
    /\ req[r].pc = "s_finish"
    /\ UNCHANGED catalog_vars
    /\ LockFree
    /\ tasks' = IF req[r].final # None
                THEN [tasks EXCEPT ![req[r].task].final_destination = req[r].final]
                ELSE tasks
    /\ _download_queue' = _download_queue \cup {req[r].task}
    /\ last_start' = [last_start EXCEPT ![req[r].media] = req[r].task]
    /\ req' = [req EXCEPT ![r] = Idle]
    /\ UNCHANGED <<authenticated, _download_tasks, _download_threads,
                   _download_lock, saved_state, fs, worker, cleanup_threads,
                   completions, cancelled, unused_ids, restarts>>

\* MediaManager.cancel_download takes the lock and JellyfinService.
\* cancel_download finds the task active (every other case returns False and
\* changes nothing).
CancelCheck(r, t) ==
    /\ req[r].pc = "idle"
    /\ UNCHANGED catalog_vars
    /\ LockFree
    /\ t \in _download_queue
    /\ t \in _download_tasks
    /\ is_active(tasks[t])
    /\ _download_lock' = r
    /\ req' = [req EXCEPT ![r] = [Idle EXCEPT !.op = "cancel", !.pc = "c_mark",
                                              !.task = t]]
    /\ UNCHANGED <<authenticated, tasks, _download_tasks, _download_threads,
                   _download_queue, saved_state, fs, worker, cleanup_threads,
                   completions, cancelled, last_start, unused_ids, restarts>>

\* task.mark_failed("Download cancelled by user") in JellyfinService.
CancelMark(r) ==
    /\ req[r].pc = "c_mark"
    /\ UNCHANGED catalog_vars
    /\ tasks' = [tasks EXCEPT
           ![req[r].task] = mark_failed(@, "Download cancelled by user")]
    /\ worker' = [worker EXCEPT
           ![req[r].task].late =
               IF /\ tasks[req[r].task].status = DOWNLOADING
                  /\ worker[req[r].task].pc \notin {"none", "callback", "done"}
               THEN 0 ELSE @]
    /\ req' = [req EXCEPT ![r].pc = "c_finish"]
    /\ UNCHANGED <<authenticated, _download_tasks, _download_threads,
                   _download_queue, _download_lock, saved_state, fs,
                   cleanup_threads, completions, cancelled, last_start, unused_ids, restarts>>

\* success is True: task.mark_failed("Cancelled by user") in MediaManager,
\* the lock is released and True is returned.
CancelFinish(r) ==
    /\ req[r].pc = "c_finish"
    /\ UNCHANGED catalog_vars
    /\ tasks' = [tasks EXCEPT ![req[r].task] = mark_failed(@, "Cancelled by user")]
    /\ cancelled' = cancelled \cup {req[r].task}
    /\ _download_lock' = NoOne
    /\ req' = [req EXCEPT ![r] = Idle]
    /\ UNCHANGED <<authenticated, _download_tasks, _download_threads,
                   _download_queue, saved_state, fs, worker, cleanup_threads,
                   completions, last_start, unused_ids, restarts>>

\* "Check if download just completed".
JustCompleted(previous_status, updated_task) ==
    previous_status # COMPLETED /\ updated_task.status = COMPLETED

\* previous_status = task.status for the next task of the loop; at its end the
\* lock is released.
PollNext(r, todo) ==
    IF todo = {}
    THEN /\ req' = [req EXCEPT ![r] = Idle]
         /\ _download_lock' = NoOne
    ELSE /\ req' = [req EXCEPT
               ![r] = [Idle EXCEPT !.op = "poll", !.pc = "p_upd", !.todo = todo,
                          !.task = Min(todo),
                          !.previous_status = tasks[Min(todo)].status]]
         /\ _download_lock' = r

\* get_download_status(task_id) (todo is that task) and
\* get_all_download_tasks() (todo is the whole queue) take the lock and read
\* previous_status.
PollBegin(r, todo) ==
    /\ req[r].pc = "idle"
    /\ UNCHANGED catalog_vars
    /\ LockFree
    /\ todo # {}
    /\ todo = _download_queue \/ \E t \in _download_queue : todo = {t}
    /\ PollNext(r, todo)
    /\ UNCHANGED <<authenticated, tasks, _download_tasks, _download_threads,
                   _download_queue, saved_state, fs, worker, cleanup_threads,
                   completions, cancelled, last_start, unused_ids, restarts>>

\* updated_task = jellyfin_service.get_download_status(task_id); a change to
\* COMPLETED runs the completion handler and schedules cleanup_completed_task;
\* then the loop goes on.
PollUpdated(r) ==
    /\ req[r].pc = "p_upd"
    /\ UNCHANGED catalog_vars
    /\ LET t == req[r].task
       IN  /\ IF t \in _download_tasks
                 /\ JustCompleted(req[r].previous_status, tasks[t])
              THEN \E move_ok \in BOOLEAN, scan_ok \in BOOLEAN :
                     /\ _handle_download_completion(t, move_ok, scan_ok)
                     /\ worker' = IF HandlerMoves(tasks[t], move_ok)
                                  THEN Unlinked(worker, tasks[t].file_path)
                                  ELSE worker
                     /\ cleanup_threads' = cleanup_threads \cup {t}
              ELSE UNCHANGED <<tasks, fs, completions, worker, cleanup_threads>>
           /\ PollNext(r, req[r].todo \ {t})
    /\ UNCHANGED <<authenticated, _download_tasks, _download_threads,
                   _download_queue, saved_state, cancelled, last_start, unused_ids, restarts>>

\* cleanup_completed_task, 3 seconds later.
CleanupCompletedTask(t) ==
    /\ t \in cleanup_threads
    /\ UNCHANGED catalog_vars
    /\ LockFree
    /\ cleanup_threads' = cleanup_threads \ {t}
    /\ _download_queue' = _download_queue \ {t}
    /\ UNCHANGED <<authenticated, tasks, _download_tasks, _download_threads,
                   _download_lock, saved_state, fs, worker, req, completions,
                   cancelled, last_start, unused_ids, restarts>>

\* ---------------------------------------------------------- authentication
\* JellyfinService.authenticate succeeds.
Authenticate ==
    /\ ~authenticated
    /\ UNCHANGED catalog_vars
    /\ authenticated' = TRUE
    /\ UNCHANGED <<tasks, _download_tasks, _download_threads, _download_queue,
                   _download_lock, saved_state, fs, worker, req, cleanup_threads,
                   completions, cancelled, last_start, unused_ids, restarts>>

\* JellyfinService._clear_authentication_state.
ClearAuthentication ==
    /\ authenticated
    /\ UNCHANGED catalog_vars
    /\ authenticated' = FALSE
    /\ UNCHANGED <<tasks, _download_tasks, _download_threads, _download_queue,
                   _download_lock, saved_state, fs, worker, req, cleanup_threads,
                   completions, cancelled, last_start, unused_ids, restarts>>

\* ------------------------------------------------------------ process start
\* _resume_download: a worker is started if the file of the task is there,
\* otherwise the task is marked failed.
Resumed(task) ==
    IF task.file_path # None /\ ~exists(task.file_path)
    THEN mark_failed(task, "Partial download file not found during resume")
    ELSE task

\* The restore test letting every persisted task through.
Restorable_any(task) == task.status \in {PENDING, DOWNLOADING, COMPLETED, FAILED}

\* _load_download_state: "Only restore active downloads, not completed ones".
Restorable(task) == is_active(task)

\* The process dies at any point and is started again: every thread is gone,
\* the file system and the state file remain, JellyfinService.__init__ loads
\* the state file.
Restart ==
    /\ restarts < MaxRestarts
    /\ UNCHANGED catalog_vars
    /\ restarts' = restarts + 1
    /\ LET loaded == {t \in DOMAIN saved_state : Restorable(saved_state[t])}
           resumed == {t \in loaded : exists(saved_state[t].file_path)}
       IN  /\ tasks' = [t \in loaded |-> Resumed(saved_state[t])]
           /\ _download_tasks' = loaded
           /\ _download_threads' = resumed
           /\ worker' = [t \in TaskIds |->
                 IF t \in resumed THEN NewWorker(saved_state[t].file_path)
                 ELSE NoWorker]
    /\ authenticated' = FALSE
    /\ _download_queue' = {}
    /\ _download_lock' = NoOne
    /\ req' = [r \in Requests |-> Idle]
    /\ cleanup_threads' = {}
    /\ completions' = [t \in TaskIds |-> [started |-> 0, cleared |-> 0]]
    /\ cancelled' = {}
    /\ last_start' = [j \in JellyfinIds |-> NoId]
    /\ UNCHANGED <<saved_state, fs, unused_ids>>

\* ------------------------------------------------- JellyfinService: fetch
\* get_media_library.  One step per page request (a _make_request call with
\* its handling) and one per processed response.  Raw item i of the remote
\* catalogue is the item at offset i, a JSON object.  Of metadata['warnings']
\* the warnings of the item conversions are kept; those of the retries and
\* of a changed TotalRecordCount, and the timings, are left out.
NoTotal == -1

FetchIdle ==
    [pc |-> "idle", page_count |-> 0, start_index |-> 0, total_fetched |-> 0,
     total_expected |-> NoTotal, failed_pages |-> <<>>,
     page_retry_count |-> 0]

NewMetadata ==
    [success |-> FALSE, pages_fetched |-> 0, items_processed |-> 0,
     valid_items |-> 0, total_expected |-> 0, errors |-> <<>>,
     warnings |-> <<>>, retry_attempts |-> 0, partial_success |-> FALSE]

FetchInit ==
    /\ fetch = FetchIdle
    /\ media_items = <<>>
    /\ metadata = NewMetadata
    /\ served = <<>>

Error(msg, page) == [msg |-> msg, page |-> page]

\* The Type of raw item i: every third item is of a kind the player does
\* not show, or has a null Type.
RemoteType(i) ==
    IF i % 3 = 2 THEN (IF i % 2 = 0 THEN None ELSE "Folder") ELSE "Movie"

RawItems(start_index, n) == [k \in 1..n |-> start_index + k - 1]

Supported(i) == RemoteType(i) \in {"Movie", "Series", "Episode"}

\* Converted keeping only the first item of a page.
Converted_first_only(items) ==
    IF items = <<>> \/ RemoteType(items[1]) # "Movie"
    THEN <<>>
    ELSE <<[id |-> <<"jellyfin", items[1]>>, jellyfin_id |-> items[1],
            availability |-> "remote_only"]>>

\* The MediaItems of the raw items that convert (None is filtered out).
_convert_jellyfin_item_to_media_item(i) ==
    [id |-> <<"jellyfin", i>>, jellyfin_id |-> i, availability |-> "remote_only"]

Converted(items) ==
    LET kept == SelectSeq(items, Supported)
    IN  [k \in 1..Len(kept) |-> _convert_jellyfin_item_to_media_item(kept[k])]

\* The body of _convert_jellyfin_item_to_media_item raises on raw item i:
\* item.get('Type', '') is None, which has no lower().
Raises(i) == RemoteType(i) = None

\* What a call of the converter hands to the loop over the page: "item",
\* "none" (return None, for an unsupported Type and in the except clause
\* around the whole body) or "raise".
Conversion(i) ==
    IF Raises(i) THEN "none" ELSE IF Supported(i) THEN "item" ELSE "none"

\* The warnings the loop over the items of a page appends: one for each call
\* that raised, and the count of the page.
PageWarnings(items, page_count) ==
    LET Failed(i) == Conversion(i) = "raise"
        page_conversion_errors == Len(SelectSeq(items, Failed))
    IN  [k \in 1..page_conversion_errors |->
            Error("Failed to convert item", page_count)]
        \o (IF page_conversion_errors > 0
            THEN <<Error("item conversion errors", page_count)>> ELSE <<>>)

PageCap == MaxPages + 2

FetchStart ==
    /\ fetch.pc \in {"idle", "returned"}
    /\ media_items' = <<>>
    /\ served' = <<>>
    /\ IF ~authenticated
       THEN /\ fetch' = [FetchIdle EXCEPT !.pc = "returned"]
            /\ metadata' = [NewMetadata EXCEPT
                   !.errors = <<Error("Not authenticated", 0)>>]
       ELSE /\ fetch' = [FetchIdle EXCEPT !.pc = "page", !.page_count = 1]
            /\ metadata' = NewMetadata
    /\ UNCHANGED <<download_vars, beside_fetch>>

\* SkipPage skipping the first page like any other.
SkipPage_any_page(f, md) ==
    /\ f.page_count < PageCap
    /\ fetch' = [f EXCEPT !.start_index = @ + PageSize,
                          !.page_count = @ + 1,
                          !.page_retry_count = 0]
    /\ metadata' = [md EXCEPT !.partial_success = TRUE]

\* The page was given up: the first page ends the call, a later one is
\* skipped.
SkipPage(f, md) ==
    IF f.page_count = 1
    THEN /\ fetch' = [f EXCEPT !.pc = "returned"]
         /\ metadata' = [md EXCEPT !.success = FALSE]
    ELSE /\ f.page_count < PageCap
         /\ fetch' = [f EXCEPT !.start_index = @ + PageSize,
                               !.page_count = @ + 1,
                               !.page_retry_count = 0]
         /\ metadata' = [md EXCEPT !.partial_success = TRUE]

\* The end of the call after the loop: final metadata and return.
Finish(f, items, md) ==
    /\ fetch' = [f EXCEPT !.pc = "returned"]
    /\ metadata' =
           LET done == [md EXCEPT
                   !.success = Len(items) > 0 \/ f.total_expected = 0]
           IN  IF f.failed_pages # <<>>
               THEN [done EXCEPT
                       !.partial_success = TRUE,
                       !.errors = Append(@, Error("failed pages",
                                                  Len(f.failed_pages)))]
               ELSE done

\* The handling of the page r that arrived: r.items, r.total
\* (TotalRecordCount) and r.json (whether the body parses).
ProcessPage(r) ==
    LET page == [ok |-> TRUE, items |-> r.items]
    IN  IF ~r.json
        THEN \* response.json() raises: the outer except returns
             /\ fetch' = [fetch EXCEPT !.pc = "returned"]
             /\ metadata' = [metadata EXCEPT
                    !.errors = Append(@, Error("exception", fetch.page_count))]
             /\ UNCHANGED <<media_items, served>>
        ELSE LET f0 == [fetch EXCEPT !.total_expected = r.total]
                 md0 == [metadata EXCEPT !.total_expected = r.total]
             IN  IF r.items = <<>>
                 THEN /\ Finish(f0, media_items, md0)
                      /\ served' = Append(served, page)
                      /\ UNCHANGED media_items
                 ELSE LET all == media_items \o Converted(r.items)
                          f1 == [f0 EXCEPT !.total_fetched = @ + Len(r.items)]
                          md1 == [md0 EXCEPT
                                     !.pages_fetched = fetch.page_count,
                                     !.items_processed = f1.total_fetched,
                                     !.valid_items = Len(all),
                                     !.warnings = @ \o
                                         PageWarnings(r.items, fetch.page_count)]
                      IN  /\ media_items' = all
                          /\ served' = Append(served, page)
                          /\ IF \/ Len(r.items) < PageSize
                                \/ f1.total_fetched >= f1.total_expected
                             THEN Finish(f1, all, md1)
                             ELSE IF fetch.page_count > MaxPages
                             THEN Finish(
                                    [f1 EXCEPT !.start_index = @ + PageSize],
                                    all,
                                    [md1 EXCEPT !.errors = Append(@,
                                        Error("safety break", fetch.page_count))])
                             ELSE /\ fetch' = [f1 EXCEPT
                                         !.start_index = @ + PageSize,
                                         !.page_count = @ + 1,
                                         !.page_retry_count = 0]
                                  /\ metadata' = md1

\* One pass of the retry loop of a page, with the handling of the page when
\* it arrives.  _make_request returns the response, or None after its own
\* retries or on a 401, which also clears the authentication state.
FetchAttempt(outcome, n, total, json) ==
    /\ fetch.pc = "page"
    /\ IF outcome = "ok"
       THEN /\ ProcessPage([items |-> RawItems(fetch.start_index, n),
                            total |-> total, json |-> json])
            /\ UNCHANGED authenticated
       ELSE LET retries == fetch.page_retry_count + 1
                md == [metadata EXCEPT !.retry_attempts = @ + 1]
            IN  /\ authenticated' =
                       IF outcome = "unauthorized" THEN FALSE ELSE authenticated
                /\ UNCHANGED media_items
                /\ IF retries < max_page_retries
                   THEN /\ fetch' = [fetch EXCEPT !.page_retry_count = retries]
                        /\ metadata' = md
                        /\ UNCHANGED served
                   ELSE /\ SkipPage(
                              [fetch EXCEPT
                                  !.page_retry_count = retries,
                                  !.failed_pages = Append(@, fetch.page_count)],
                              [md EXCEPT !.errors =
                                  Append(@, Error("page failed", fetch.page_count))])
                        /\ served' = Append(served, [ok |-> FALSE, items |-> <<>>])
    /\ UNCHANGED <<tasks, _download_tasks, _download_threads, _download_queue,
                   _download_lock, saved_state, fs, worker, req,
                   cleanup_threads, completions, cancelled, last_start,
                   unused_ids, restarts, beside_fetch>>

\* --------------------------------------------------- MediaManager: merge
\* A title is the sequence of its words.  The words of the titles below, in
\* the order of Python's string comparison of their lower case.
WordsInOrder == <<"(2010)", "heat", "inception", "the">>

Lower(w) ==
    CASE w = "Inception" -> "inception"
      [] w = "The" -> "the"
      [] w = "Heat" -> "heat"
      [] OTHER -> w

\* re.sub(r'[^\w\s]', '', w)
WordChars(w) == IF w = "(2010)" THEN "2010" ELSE w

_normalize_title(title) ==
    LET lower == [k \in 1..Len(title) |-> Lower(title[k])]
        bare == IF Len(lower) > 1 /\ lower[1] \in {"the", "a", "an"}
                THEN Tail(lower) ELSE lower
        words == [k \in 1..Len(bare) |-> WordChars(bare[k])]
        Kept(w) == w \notin {"", "2010", "1080p", "bluray", "x264"}
    IN  SelectSeq(words, Kept)

LOCAL_ONLY == "local_only"
REMOTE_ONLY == "remote_only"
BOTH == "both"

MediaItem(id, title, availability, year, local_path, jellyfin_id) ==
    [id |-> id, title |-> title, availability |-> availability,
     year |-> year, local_path |-> local_path, jellyfin_id |-> jellyfin_id]

LocalItems ==
    {MediaItem("local_1", <<"Inception">>, LOCAL_ONLY, None,
               "/media/Inception.mkv", None),
     MediaItem("local_2", <<"Inception", "(2010)">>, LOCAL_ONLY, "2010",
               "/media/Inception (2010).mkv", None),
     MediaItem("local_3", <<"The", "Heat">>, LOCAL_ONLY, None,
               "/media/The Heat.mkv", None)}

RemoteItems ==
    {MediaItem("jellyfin_r1", <<"inception">>, REMOTE_ONLY, "2010", None, "r1"),
     MediaItem("jellyfin_r2", <<"Heat">>, REMOTE_ONLY, "1995", None, "r2"),
     MediaItem("jellyfin_r3", <<"The", "Inception">>, REMOTE_ONLY, None, None, "r3")}

\* The lists of at most MaxItems different items of S.
Lists(S) ==
    {l \in UNION {[1..n -> S] : n \in 0..MaxItems} :
        \A i, k \in 1..Len(l) : i # k => l[i] # l[k]}

_merge_media_items(local_item, remote_item) ==
    MediaItem(local_item.id, local_item.title, BOTH,
              IF local_item.year # None THEN local_item.year ELSE remote_item.year,
              local_item.local_path, remote_item.jellyfin_id)

\* The dict built from a list: the last item of each normalized title.
ByTitle(items) ==
    LET keys == {_normalize_title(items[k].title) : k \in 1..Len(items)}
        Last(key) == CHOOSE k \in 1..Len(items) :
                        /\ _normalize_title(items[k].title) = key
                        /\ \A m \in (k + 1)..Len(items) :
                              _normalize_title(items[m].title) # key
    IN  [key \in keys |-> items[Last(key)]]

\* x.title.lower() < y.title.lower()
RECURSIVE Before(_, _)
Before(a, b) ==
    LET Rank(w) == CHOOSE k \in 1..Len(WordsInOrder) : WordsInOrder[k] = Lower(w)
    IN  IF a = <<>> THEN b # <<>>
        ELSE IF b = <<>> THEN FALSE
        ELSE IF Lower(a[1]) = Lower(b[1]) THEN Before(Tail(a), Tail(b))
        ELSE Rank(a[1]) < Rank(b[1])

\* list.sort(key=lambda x: x.title.lower()) of items of different keys
RECURSIVE SortedByTitle(_)
SortedByTitle(S) ==
    IF S = {} THEN <<>>
    ELSE LET first == CHOOSE x \in S : \A y \in S : ~Before(y.title, x.title)
         IN  <<first>> \o SortedByTitle(S \ {first})

_merge_and_deduplicate(local, remote) ==
    LET local_by_title == ByTitle(local)
        remote_by_title == ByTitle(remote)
        both == DOMAIN local_by_title \cap DOMAIN remote_by_title
    IN  SortedByTitle(
            {_merge_media_items(local_by_title[key], remote_by_title[key]) :
                key \in both} \cup
            {local_by_title[key] : key \in DOMAIN local_by_title \ both} \cup
            {remote_by_title[key] : key \in DOMAIN remote_by_title \ both})

MergeInit ==
    /\ local_media = <<>>
    /\ remote_media = <<>>
    /\ unified_media = <<>>

\* A call of _merge_and_deduplicate with the two lists.
Merge(local, remote) ==
    /\ local_media' = local
    /\ remote_media' = remote
    /\ unified_media' = _merge_and_deduplicate(local, remote)
    /\ UNCHANGED beside_merge

\* ------------------------------------------- LocalMediaService: validate
\* validate_file_existence over the files of fs, one step per call (the
\* sequential path).  A path whose stat raises is Broken.  Of the statistics
\* the call counter and the cache hit and miss counters are kept.
Broken == "broken"

Paths == DOMAIN fs

Set(list) == {list[k] : k \in 1..Len(list)}

\* The lists of different paths.
Batches ==
    {b \in UNION {[1..n -> Paths] : n \in 1..Cardinality(Paths)} :
        \A i, k \in 1..Len(b) : i # k => b[i] # b[k]}

ValidateInit ==
    /\ now = 1
    /\ local_media_db = Paths
    /\ _validation_cache = [p \in Paths |-> 0]
    /\ _validation_stats = [total_validations |-> 0, cache_hits |-> 0,
                            cache_misses |-> 0]
    /\ local_items = [p \in Paths |->
                         [file_validated |-> FALSE, validation_timestamp |-> 0]]
    /\ validations = <<>>
    /\ last_check = [p \in Paths |-> [time |-> 0, ok |-> FALSE]]
    /\ fs_touched = FALSE

\* CacheTrusted not trusting an entry written at the same clock reading.
CacheTrusted_later_only(path, current_time) ==
    /\ _validation_cache[path] # 0
    /\ current_time - _validation_cache[path] < ValidationTtl
    /\ current_time > _validation_cache[path]
    /\ local_items[path].file_validated
    /\ local_items[path].validation_timestamp > 0

\* CacheTrusted with an entry of exactly the TTL still trusted.
CacheTrusted_at_ttl(path, current_time) ==
    /\ _validation_cache[path] # 0
    /\ current_time - _validation_cache[path] <= ValidationTtl
    /\ local_items[path].file_validated
    /\ local_items[path].validation_timestamp > 0

\* The test of the partition loop: the cache entry is trusted.
CacheTrusted(path, current_time) ==
    /\ _validation_cache[path] # 0
    /\ current_time - _validation_cache[path] < ValidationTtl
    /\ local_items[path].file_validated
    /\ local_items[path].validation_timestamp > 0

\* IsFile taking a path whose stat raises as an existing file.
IsFile_unless_absent(path) == fs[path] # Absent

\* os.path.exists(path) and os.path.isfile(path); Broken raises instead.
IsFile(path) == fs[path] \in {Empty, NonEmpty}

\* validate_file_existence(items) at current_time = now; store_ok
\* tells whether the DELETE of the missing paths goes through.
Validate(items, store_ok) ==
    LET Trusted(path) == CacheTrusted(path, now)
        Missed(path) == ~CacheTrusted(path, now)
        Found(path) == IsFile(path)
        Missing(path) == ~IsFile(path)
        validated_items == SelectSeq(items, Trusted)
        items_to_validate == SelectSeq(items, Missed)
        newly_validated == SelectSeq(items_to_validate, Found)
        missing_files == SelectSeq(items_to_validate, Missing)
        result == validated_items \o newly_validated
        call == [time |-> now, batch |-> items,
                 trusted |-> Set(validated_items),
                 checked |-> Set(items_to_validate),
                 result |-> result, hits |-> Len(validated_items)]
    IN  /\ _validation_stats.total_validations < MaxCalls
        /\ _validation_stats' = [_validation_stats EXCEPT
               !.total_validations = @ + 1,
               !.cache_hits = @ + Len(validated_items),
               !.cache_misses = @ + Len(items_to_validate)]
        /\ local_items' = [path \in Paths |->
               IF path \in Set(newly_validated)
               THEN [file_validated |-> TRUE, validation_timestamp |-> now]
               ELSE local_items[path]]
        /\ _validation_cache' = [path \in Paths |->
               IF path \in Set(newly_validated) THEN now
               ELSE IF path \in Set(missing_files) THEN 0
               ELSE _validation_cache[path]]
        /\ local_media_db' =
               IF store_ok THEN local_media_db \ Set(missing_files)
               ELSE local_media_db
        /\ last_check' = [path \in Paths |->
               IF path \in Set(items_to_validate)
               THEN [time |-> now, ok |-> IsFile(path)]
               ELSE last_check[path]]
        /\ validations' = <<call>>
        /\ fs_touched' = FALSE
        /\ UNCHANGED <<beside_validate, fs, now>>

\* A file appears, disappears or becomes unreadable.
FsChange(path, state) ==
    /\ fs[path] # state
    /\ fs' = [fs EXCEPT ![path] = state]
    /\ fs_touched' = TRUE
    /\ UNCHANGED <<beside_validate, now, local_media_db, _validation_cache,
                   _validation_stats, local_items, validations, last_check>>

Tick ==
    /\ now < MaxTime
    /\ now' = now + 1
    /\ UNCHANGED <<download_vars, fetch_vars, merge_vars, validate_vars,
                   tracker_vars, cache_vars, orphans, pool_vars, lock_vars>>

\* ------------------------------------------- DownloadProgressTracker
\* The producers are the request thread (download_media, cancel_download) and
\* the worker threads (_download_worker_with_progress).  A _notify_subscribers
\* call takes one step per pass of its loop over progress_subscribers (a put
\* may block for its timeout) and the slice assignment follows the last pass
\* in the same step.
Subscribers == {1, 2}
WorkerThreads == {2, 3}
Producers == {Min(Requests)} \cup WorkerThreads

\* A snapshot: the copy of an entry with its task_id; id numbers the
\* snapshots in the order in which their values were written to the entry.
NoData == [id |-> 0, task_id |-> NoId, status |-> "none"]

NotNotifying ==
    [pc |-> "idle", data |-> NoData, index |-> 0, active_subscribers |-> <<>>,
     full |-> {}, removes |-> FALSE]

NoRun == [task_id |-> NoId, pc |-> "none"]

TrackerInit ==
    /\ active_downloads = [t \in TaskIds |-> "none"]
    /\ progress_subscribers = <<>>
    /\ subscriber_queue = [q \in Subscribers |-> <<>>]
    /\ progress_lock = NoOne
    /\ notifier = [n \in Producers |-> NotNotifying]
    /\ published = 0
    /\ run = [n \in WorkerThreads |-> NoRun]
    /\ last_put = [q \in Subscribers |-> [t \in TaskIds |-> NoData]]

\* task_id in active_downloads
Tracked(t) == active_downloads[t] \notin {"none", "removed"}

\* event_stream: a new queue is appended to progress_subscribers.
Subscribe(q) ==
    /\ q \notin Set(progress_subscribers)
    /\ subscriber_queue[q] = <<>>
    /\ \A n \in Producers : q \notin notifier[n].full
    /\ progress_subscribers' = Append(progress_subscribers, q)
    /\ last_put' = [last_put EXCEPT ![q] = [t \in TaskIds |-> NoData]]
    /\ UNCHANGED <<beside_tracker, active_downloads, subscriber_queue,
                   progress_lock, notifier, published, run>>

\* event_stream: subscriber_queue.get
Consume(q) ==
    /\ subscriber_queue[q] # <<>>
    /\ subscriber_queue' = [subscriber_queue EXCEPT ![q] = Tail(@)]
    /\ UNCHANGED <<beside_tracker, active_downloads, progress_subscribers,
                   progress_lock, notifier, published, run, last_put>>

\* _notify_subscribers begins: the snapshot is copied.
Notifying(task_id, status) ==
    [NotNotifying EXCEPT
        !.pc = "notify",
        !.data = [id |-> published + 1, task_id |-> task_id, status |-> status]]

\* start_download: the entry is written under the lock, the subscribers are
\* notified after it is released.
start_download(n, t) ==
    /\ notifier[n].pc = "idle"
    /\ progress_lock = NoOne
    /\ published < MaxEvents
    /\ active_downloads[t] = "none"
    /\ active_downloads' = [active_downloads EXCEPT ![t] = "starting"]
    /\ notifier' = [notifier EXCEPT ![n] = Notifying(t, "starting")]
    /\ published' = published + 1
    /\ UNCHANGED <<beside_tracker, progress_subscribers, subscriber_queue,
                   progress_lock, run, last_put>>

\* download_media: download_thread.start(), after start_download has
\* returned; every task gets one worker this way.
StartWorker(n, t) ==
    /\ run[n].pc = "none"
    /\ notifier[Min(Requests)].pc = "idle"
    /\ active_downloads[t] # "none"
    /\ \A m \in WorkerThreads : run[m].task_id # t
    /\ run' = [run EXCEPT ![n] = [task_id |-> t, pc |-> "running"]]
    /\ UNCHANGED <<beside_tracker, active_downloads, progress_subscribers,
                   subscriber_queue, progress_lock, notifier, published,
                   last_put>>

\* _resume_download, called by the __init__ of a JellyfinService constructed
\* while the worker of task t runs: a second worker thread for the task, which
\* the state file holds as active.
_resume_download(n, t) ==
    /\ run[n].pc = "none"
    /\ \E m \in WorkerThreads : run[m] = [task_id |-> t, pc |-> "running"]
    /\ run' = [run EXCEPT ![n] = [task_id |-> t, pc |-> "running"]]
    /\ UNCHANGED <<beside_tracker, active_downloads, progress_subscribers,
                   subscriber_queue, progress_lock, notifier, published,
                   last_put>>

\* update_progress, called by enhanced_update_progress in the worker of the
\* task: the entry is updated and the subscribers are notified under the lock.
TrackerUpdate(n, t) ==
    /\ run[n] = [task_id |-> t, pc |-> "running"]
    /\ notifier[n].pc = "idle"
    /\ progress_lock = NoOne
    /\ published < MaxEvents
    /\ Tracked(t)
    /\ active_downloads' = [active_downloads EXCEPT ![t] = "downloading"]
    /\ progress_lock' = n
    /\ notifier' = [notifier EXCEPT ![n] = Notifying(t, "downloading")]
    /\ published' = published + 1
    /\ UNCHANGED <<beside_tracker, progress_subscribers, subscriber_queue,
                   run, last_put>>

\* complete_download / fail_download, called by the worker thread after
\* _download_worker has returned: the final status is written and published
\* under the lock, and the timer that removes the entry is started.
FinalStatus(n, t, status) ==
    /\ run[n] = [task_id |-> t, pc |-> "running"]
    /\ notifier[n].pc = "idle"
    /\ progress_lock = NoOne
    /\ run' = [run EXCEPT ![n].pc = "ended"]
    /\ IF Tracked(t)
       THEN /\ published < MaxEvents
            /\ active_downloads' = [active_downloads EXCEPT ![t] = status]
            /\ progress_lock' = n
            /\ notifier' = [notifier EXCEPT ![n] = Notifying(t, status)]
            /\ published' = published + 1
       ELSE UNCHANGED <<active_downloads, progress_lock, notifier, published>>
    /\ UNCHANGED <<beside_tracker, progress_subscribers, subscriber_queue,
                   last_put>>

\* _remove_download, run by the timer of complete_download or fail_download.
_remove_download(t) ==
    /\ \E n \in WorkerThreads : run[n] = [task_id |-> t, pc |-> "ended"]
    /\ progress_lock = NoOne
    /\ Tracked(t)
    /\ active_downloads' = [active_downloads EXCEPT ![t] = "removed"]
    /\ UNCHANGED <<beside_tracker, progress_subscribers, subscriber_queue,
                   progress_lock, notifier, published, run, last_put>>

\* cancel_download: the status is written and published under the lock, and
\* the call goes on to _remove_download with the lock held.
cancel_download(n, t) ==
    /\ notifier[n].pc = "idle"
    /\ progress_lock = NoOne
    /\ published < MaxEvents
    /\ Tracked(t)
    /\ active_downloads' = [active_downloads EXCEPT ![t] = "cancelled"]
    /\ progress_lock' = n
    /\ notifier' = [notifier EXCEPT
           ![n] = [Notifying(t, "cancelled") EXCEPT !.removes = TRUE]]
    /\ published' = published + 1
    /\ UNCHANGED <<beside_tracker, progress_subscribers, subscriber_queue,
                   run, last_put>>

\* put(data, timeout=0.1) finds no free slot before its timeout.
Full(queue) == Len(queue) >= QueueSize

\* One pass of the loop of _notify_subscribers, or its end.  The caller that
\* goes on to _remove_download waits there for progress_lock (a
\* threading.Lock, which its own `with` block still holds) and never returns.
_notify_subscribers(n) ==
    LET call == notifier[n]
        next == call.index + 1
    IN  /\ call.pc = "notify"
        /\ IF next <= Len(progress_subscribers)
           THEN /\ UNCHANGED <<progress_subscribers, progress_lock>>
                /\ LET q == progress_subscribers[next]
                   IN  IF Full(subscriber_queue[q])
                       THEN /\ notifier' = [notifier EXCEPT
                                   ![n].index = next,
                                   ![n].full = @ \cup {q}]
                            /\ UNCHANGED <<subscriber_queue, last_put>>
                       ELSE /\ subscriber_queue' = [subscriber_queue EXCEPT
                                   ![q] = Append(@, call.data)]
                            /\ last_put' = [last_put EXCEPT
                                   ![q][call.data.task_id] = call.data]
                            /\ notifier' = [notifier EXCEPT
                                   ![n].index = next,
                                   ![n].active_subscribers = Append(@, q)]
           ELSE /\ progress_subscribers' = call.active_subscribers
                /\ notifier' = [notifier EXCEPT
                       ![n] = IF call.removes
                              THEN [NotNotifying EXCEPT !.pc = "blocked"]
                              ELSE NotNotifying]
                /\ progress_lock' =
                       IF progress_lock = n /\ ~call.removes
                       THEN NoOne ELSE progress_lock
                /\ UNCHANGED <<subscriber_queue, last_put>>
        /\ UNCHANGED <<beside_tracker, active_downloads, published, run>>

\* ------------------------------------------- MediaManager: list caches
\* The getters of the media lists, one step per call.  The clock is now; the
\* timestamps of __init__ are 0, which time.time() (seconds since 1970) is
\* further from than any TTL.  The local library holds one file.  The remote
\* library holds one item, whose jellyfin_id names the moment it was served
\* (Revisions): the item of a list tells when the list was fetched.
NoCall ==
    [call |-> "none", time |-> 0, force_refresh |-> FALSE,
     reachable |-> FALSE, items |-> <<>>, handled |-> 0]

NoRefresh ==
    [pc |-> "idle", force_validation |-> FALSE, current_time |-> 0,
     media_items |-> <<>>, handled |-> 0]

\* What the getters taking one step leave alone.
scan_vars == <<local_scan, handled, refresh, handler>>

CacheInit ==
    /\ _unified_media_cache = <<>>
    /\ _cache_timestamp = 0
    /\ _local_media_cache = <<>>
    /\ _local_cache_timestamp = 0
    /\ _remote_media_cache = <<>>
    /\ _remote_cache_timestamp = 0
    /\ _jellyfin_sync_requested = FALSE
    /\ returned = NoCall
    /\ local_scan = 1
    /\ handled = 0
    /\ refresh = NoRefresh
    /\ handler = "idle"

\* current_time - timestamp < self._cache_ttl
CacheFresh(timestamp, current_time) ==
    /\ timestamp # 0
    /\ current_time - timestamp < _cache_ttl

\* The local store after its scan-th scan: one file, whose id names the scan.
Scans == <<"local_1", "local_2", "local_3", "local_4", "local_5">>

LocalLibrary(scan) ==
    <<MediaItem(Scans[scan], <<"Inception">>, LOCAL_ONLY, None,
                "/media/Inception.mkv", None)>>

\* get_media_library at time t: the library of a reachable server, nothing
\* (success False) of an unreachable one.
Revisions == <<"r1", "r2", "r3", "r4", "r5", "r6">>

RemoteLibrary(reachable, t) ==
    IF reachable
    THEN <<MediaItem("jellyfin_r", <<"Heat">>, REMOTE_ONLY, "1995", None,
                     Revisions[t])>>
    ELSE <<>>

\* get_local_media_with_validation: the list, the cache and its timestamp.
LocalLoad(force_validation) ==
    IF /\ ~force_validation
       /\ _local_media_cache # <<>>
       /\ CacheFresh(_local_cache_timestamp, now)
    THEN [items |-> _local_media_cache, cache |-> _local_media_cache,
          timestamp |-> _local_cache_timestamp]
    ELSE [items |-> LocalLibrary(local_scan),
          cache |-> LocalLibrary(local_scan), timestamp |-> now]

\* get_remote_media_only: the list, the cache and its timestamp.
RemoteLoad(force_refresh, reachable) ==
    IF /\ ~force_refresh
       /\ _remote_media_cache # <<>>
       /\ CacheFresh(_remote_cache_timestamp, now)
    THEN [items |-> _remote_media_cache, cache |-> _remote_media_cache,
          timestamp |-> _remote_cache_timestamp]
    ELSE [items |-> RemoteLibrary(reachable, now),
          cache |-> RemoteLibrary(reachable, now), timestamp |-> now]

Returned(call, force_refresh, reachable, items) ==
    [call |-> call, time |-> now, force_refresh |-> force_refresh,
     reachable |-> reachable, items |-> items, handled |-> handled]

get_remote_media_only(force_refresh, reachable) ==
    LET remote == RemoteLoad(force_refresh, reachable)
    IN  /\ _remote_media_cache' = remote.cache
        /\ _remote_cache_timestamp' = remote.timestamp
        /\ returned' = Returned("remote", force_refresh, reachable, remote.items)
        /\ UNCHANGED <<beside_cache, now, scan_vars, _unified_media_cache,
                       _cache_timestamp, _local_media_cache,
                       _local_cache_timestamp, _jellyfin_sync_requested>>

get_unified_media_list(force_refresh, reachable) ==
    IF ~force_refresh /\ CacheFresh(_cache_timestamp, now)
    THEN /\ returned' = Returned("unified", force_refresh, reachable,
                                 _unified_media_cache)
         /\ UNCHANGED <<beside_cache, now, scan_vars, _unified_media_cache,
                        _cache_timestamp, _local_media_cache,
                        _local_cache_timestamp, _remote_media_cache,
                        _remote_cache_timestamp, _jellyfin_sync_requested>>
    ELSE LET local == LocalLoad(force_refresh)
             sync == \/ force_refresh
                     \/ _jellyfin_sync_requested
                     \/ _remote_media_cache = <<>>
             remote == IF sync
                       THEN RemoteLoad(force_refresh, reachable)
                       ELSE [items |-> _remote_media_cache,
                             cache |-> _remote_media_cache,
                             timestamp |-> _remote_cache_timestamp]
             unified_media_list ==
                 _merge_and_deduplicate(local.items, remote.items)
         IN  /\ _local_media_cache' = local.cache
             /\ _local_cache_timestamp' = local.timestamp
             /\ _remote_media_cache' = remote.cache
             /\ _remote_cache_timestamp' = remote.timestamp
             /\ _jellyfin_sync_requested' =
                    IF sync THEN FALSE ELSE _jellyfin_sync_requested
             /\ _unified_media_cache' = unified_media_list
             /\ _cache_timestamp' = now
             /\ returned' = Returned("unified", force_refresh, reachable,
                                     unified_media_list)
             /\ UNCHANGED <<beside_cache, now, scan_vars>>

request_jellyfin_sync ==
    /\ ~_jellyfin_sync_requested
    /\ _jellyfin_sync_requested' = TRUE
    /\ UNCHANGED <<beside_cache, now, scan_vars, _unified_media_cache, _cache_timestamp,
                   _local_media_cache, _local_cache_timestamp,
                   _remote_media_cache, _remote_cache_timestamp, returned>>


\* get_local_media_with_validation called by a request handler, which takes no
\* lock: the cached list is returned at once; otherwise the store is read
\* and validated here and the cache is written in a later step.
LocalRefreshRead(force_validation) ==
    /\ refresh.pc = "idle"
    /\ IF /\ ~force_validation
          /\ _local_media_cache # <<>>
          /\ CacheFresh(_local_cache_timestamp, now)
       THEN /\ returned' = Returned("local", force_validation, FALSE,
                                    _local_media_cache)
            /\ UNCHANGED refresh
       ELSE /\ refresh' = [pc |-> "read",
                           force_validation |-> force_validation,
                           current_time |-> now,
                           media_items |-> LocalLibrary(local_scan),
                           handled |-> handled]
            /\ UNCHANGED returned
    /\ UNCHANGED <<beside_cache, now, _unified_media_cache, _cache_timestamp,
                   _local_media_cache, _local_cache_timestamp,
                   _remote_media_cache, _remote_cache_timestamp,
                   _jellyfin_sync_requested, local_scan, handled, handler>>

\* "Update cache" and the return of the call.
LocalRefreshInstall ==
    /\ refresh.pc = "read"
    /\ _local_media_cache' = refresh.media_items
    /\ _local_cache_timestamp' = refresh.current_time
    /\ returned' = [call |-> "local", time |-> refresh.current_time,
                    force_refresh |-> refresh.force_validation,
                    reachable |-> FALSE, items |-> refresh.media_items,
                    handled |-> refresh.handled]
    /\ refresh' = NoRefresh
    /\ UNCHANGED <<beside_cache, now, _unified_media_cache, _cache_timestamp,
                   _remote_media_cache, _remote_cache_timestamp,
                   _jellyfin_sync_requested, local_scan, handled, handler>>

\* _handle_download_completion: scan_media_directories records the new file.
HandlerRescan ==
    /\ handler = "idle"
    /\ local_scan < MaxScans
    /\ local_scan' = local_scan + 1
    /\ handler' = "scanned"
    /\ UNCHANGED <<beside_cache, now, _unified_media_cache, _cache_timestamp,
                   _local_media_cache, _local_cache_timestamp,
                   _remote_media_cache, _remote_cache_timestamp,
                   _jellyfin_sync_requested, returned, handled, refresh>>

\* _handle_download_completion: "Clear caches to force refresh on next
\* request", under _cache_lock.
HandlerInvalidate ==
    /\ handler = "scanned"
    /\ _unified_media_cache' = <<>>
    /\ _cache_timestamp' = 0
    /\ _local_media_cache' = <<>>
    /\ _local_cache_timestamp' = 0
    /\ handled' = local_scan
    /\ handler' = "idle"
    /\ UNCHANGED <<beside_cache, now, _remote_media_cache,
                   _remote_cache_timestamp, _jellyfin_sync_requested, returned,
                   local_scan, refresh>>

\* --------------------------- a new JellyfinService in the running process
\* config_controller constructs JellyfinService(...) and hands it to the
\* MediaManager: __init__ loads the state file as at process start, while the
\* threads of the replaced instance go on running with its task objects.
\* The rest of the run of such a thread is one step; one replaced instance
\* is followed at a time.
OrphanInit == orphans = <<>>

Running(w) == w.pc \notin {"none", "done"}

Reload ==
    /\ DOMAIN orphans = {}
    /\ \A r \in Requests : req[r].pc = "idle"
    /\ LET loaded == {t \in DOMAIN saved_state : Restorable(saved_state[t])}
           resumed == {t \in loaded : exists(saved_state[t].file_path)}
           running == {t \in DOMAIN tasks : Running(worker[t])}
       IN  /\ tasks' = [t \in DOMAIN tasks |->
                 IF t \in loaded THEN Resumed(saved_state[t]) ELSE tasks[t]]
           /\ _download_tasks' = loaded
           /\ _download_threads' = resumed
           /\ worker' = [t \in TaskIds |->
                 IF t \in resumed THEN NewWorker(saved_state[t].file_path)
                 ELSE NoWorker]
           /\ orphans' = [t \in running |->
                 [task |-> tasks[t], destination |-> worker[t].destination]]
    /\ authenticated' = FALSE
    /\ UNCHANGED <<_download_queue, _download_lock, saved_state, fs, req,
                   cleanup_threads, completions, cancelled, last_start,
                   unused_ids, restarts, beside_reload>>

\* A thread of the replaced instance comes to its end: the download has
\* completed and the file is there, or it has failed and the finally block
\* has removed the file; the replaced instance saves its tasks.
OrphanEnds(t, completed) ==
    /\ t \in DOMAIN orphans
    /\ LET old == orphans[t]
           ended == IF completed
                    THEN mark_completed(old.task, old.destination)
                    ELSE mark_failed(old.task, "Download failed")
       IN  /\ fs' = [fs EXCEPT ![old.destination] =
                        IF completed THEN NonEmpty ELSE Absent]
           /\ worker' = IF completed THEN worker
                        ELSE Unlinked(worker, old.destination)
           /\ saved_state' = SaveState([u \in {t} |-> ended], {t})
    /\ orphans' = [u \in DOMAIN orphans \ {t} |-> orphans[u]]
    /\ UNCHANGED <<authenticated, tasks, _download_tasks, _download_threads,
                   _download_queue, _download_lock, req, cleanup_threads,
                   completions, cancelled, last_start, unused_ids, restarts,
                   beside_reload>>

\* ------------------------------- validate_file_existence, file by file
\* One call whose items all need checking, followed file by file: the pool
\* of _validate_files_concurrent when there are more items than the
\* threshold, the caller's own loop otherwise.  Thread 0 is another request
\* validating a path of its own at the same time; the pool's threads are
\* 1 and 2.  Paths are numbered in the order of the list passed.  The call
\* remembers whether another request validated (validating) and whether a
\* file changed (fs_changed) since it began.
MaxBatch == 6

ConcurrentThreshold == 5

PoolPaths == 1..MaxBatch

PoolWorkers == {1, 2}

Checkers == {0} \cup PoolWorkers

NoCheck == [path |-> 0, pc |-> "idle", found |-> FALSE]

NoPoolCall ==
    [pc |-> "none", size |-> 0, submitted |-> 0, validated_items |-> <<>>,
     missing_files |-> <<>>, cache_before |-> <<>>, validating |-> FALSE,
     fs_changed |-> FALSE]

PoolInit ==
    /\ pool_fs = [p \in PoolPaths |-> FALSE]
    /\ pool_cache = [p \in PoolPaths |-> "none"]
    /\ pool_checked = [p \in PoolPaths |-> FALSE]
    /\ pool = NoPoolCall
    /\ single = [w \in Checkers |-> NoCheck]

\* _validate_single_file, the cache after it: the call's time for a file
\* found, no entry for one not found.
Stored(cache, path, found) ==
    [cache EXCEPT ![path] = IF found THEN "now" ELSE "none"]

\* _validate_files_sequential over the paths from..size, one file after the
\* other against the filesystem files.
RECURSIVE _validate_files_sequential(_, _, _, _)
_validate_files_sequential(from, size, files, result) ==
    IF from > size THEN result
    ELSE _validate_files_sequential(from + 1, size, files,
            [validated_items |->
                IF files[from] THEN Append(result.validated_items, from)
                ELSE result.validated_items,
             missing_files |->
                IF files[from] THEN result.missing_files
                ELSE Append(result.missing_files, from),
             cache |-> Stored(result.cache, from, files[from])])

Sequentially(size, files, cache) ==
    _validate_files_sequential(1, size, files,
        [validated_items |-> <<>>, missing_files |-> <<>>, cache |-> cache])

\* A check of the path is under way in the pool.
InFlight(path) ==
    \E w \in PoolWorkers :
        single[w].path = path /\ single[w].pc \in {"check", "store"}

\* validate_file_existence: size items to check, none of them trusted from
\* the cache; the paths of odd number have an entry, older than the time to
\* live and written by an earlier successful check.
PoolCall(files, size) ==
    /\ pool.pc = "none"
    /\ pool_fs' = files
    /\ LET cached == {p \in PoolPaths : p % 2 = 1}
           cache == [p \in PoolPaths |->
                        IF p \in cached THEN "old" ELSE "none"]
           call == [NoPoolCall EXCEPT !.size = size, !.cache_before = cache]
       IN  IF size > ConcurrentThreshold
           THEN /\ pool' = [call EXCEPT !.pc = "running"]
                /\ pool_cache' = cache
                /\ pool_checked' = [p \in PoolPaths |-> p \in cached]
           ELSE LET out == Sequentially(size, files, cache)
                IN  /\ pool' = [call EXCEPT
                            !.pc = "returned", !.submitted = size,
                            !.validated_items = out.validated_items,
                            !.missing_files = out.missing_files]
                    /\ pool_cache' = out.cache
                    /\ pool_checked' = [p \in PoolPaths |->
                            IF p <= size THEN files[p] ELSE p \in cached]
    /\ UNCHANGED <<single, beside_pool>>

\* executor.submit: a free thread of the pool takes the next item.
Submit(w) ==
    /\ pool.pc = "running"
    /\ w \in PoolWorkers
    /\ single[w].pc = "idle"
    /\ pool.submitted < pool.size
    /\ pool' = [pool EXCEPT !.submitted = @ + 1]
    /\ single' = [single EXCEPT
            ![w] = [NoCheck EXCEPT !.path = pool.submitted + 1, !.pc = "check"]]
    /\ UNCHANGED <<pool_fs, pool_cache, pool_checked, beside_pool>>

\* Another request validates a path while the pool is checking it.
OtherValidates(path) ==
    /\ pool.pc = "running"
    /\ InFlight(path)
    /\ ~pool.validating
    /\ single[0].pc = "idle"
    /\ pool' = [pool EXCEPT !.validating = TRUE]
    /\ single' = [single EXCEPT
            ![0] = [NoCheck EXCEPT !.path = path, !.pc = "check"]]
    /\ UNCHANGED <<pool_fs, pool_cache, pool_checked, beside_pool>>

\* _validate_single_file: os.path.exists and os.path.isfile.
ExistsCheck(w) ==
    /\ single[w].pc = "check"
    /\ single' = [single EXCEPT
            ![w].found = pool_fs[single[w].path], ![w].pc = "store"]
    /\ pool_checked' = [pool_checked EXCEPT
            ![single[w].path] = pool_fs[single[w].path]]
    /\ UNCHANGED <<pool_fs, pool_cache, pool, beside_pool>>

\* Collected with a future that found no file counted as valid.
Collected_all_valid(call, path, is_valid) ==
    [call EXCEPT !.validated_items = Append(@, path)]

\* as_completed: the caller takes a finished future into its two lists.
Collected(call, path, is_valid) ==
    [call EXCEPT
        !.validated_items = IF is_valid THEN Append(@, path) ELSE @,
        !.missing_files = IF is_valid THEN @ ELSE Append(@, path)]

\* _validate_single_file: the entry written or popped under _cache_lock and
\* the call returned; a future of the pool is collected in the order in
\* which the futures finish.
CacheStore(w) ==
    /\ single[w].pc = "store"
    /\ pool_cache' = Stored(pool_cache, single[w].path, single[w].found)
    /\ single' = [single EXCEPT ![w] = NoCheck]
    /\ pool' = IF w \in PoolWorkers
               THEN Collected(pool, single[w].path, single[w].found)
               ELSE pool
    /\ UNCHANGED <<pool_fs, pool_checked, beside_pool>>

\* _validate_files_concurrent returns once every future was collected.
PoolReturn ==
    /\ pool.pc = "running"
    /\ pool.submitted = pool.size
    /\ \A w \in PoolWorkers : single[w].pc = "idle"
    /\ pool' = [pool EXCEPT !.pc = "returned"]
    /\ UNCHANGED <<pool_fs, pool_cache, pool_checked, single, beside_pool>>

\* A file of the library is removed or put back while it is being checked.
PoolFsChange(path) ==
    /\ pool.pc = "running"
    /\ \/ InFlight(path)
       \/ single[0].path = path
    /\ ~pool.fs_changed
    /\ pool_fs' = [pool_fs EXCEPT ![path] = ~@]
    /\ pool' = [pool EXCEPT !.fs_changed = TRUE]
    /\ UNCHANGED <<pool_cache, pool_checked, single, beside_pool>>

\* --------------------------------------------------------------- locks
\* The locks an operation takes and gives back, in the order of its code.
\* MediaManager._cache_lock is "list", LocalMediaService._cache_lock is
\* "validation", _stats_lock "stats", _download_lock "download",
\* _image_cache_lock "image" and download_progress.progress_lock "progress".
Locks == {"list", "validation", "stats", "download", "image", "progress"}

\* threading.RLock; the other two are threading.Lock.
Reentrant == {"list", "validation", "download", "image"}

LockThreads == {1, 2}

Acq(lock) == [do |-> "acquire", lock |-> lock]

Rel(lock) == [do |-> "release", lock |-> lock]

\* LocalMediaService.validate_file_existence, one file checked.
LocksOfValidate ==
    <<Acq("stats"), Rel("stats"),
      Acq("validation"), Acq("stats"), Rel("stats"), Rel("validation"),
      Acq("validation"), Rel("validation"),
      Acq("stats"), Rel("stats")>>

\* MediaManager.get_unified_media_list regenerating the list.
LocksOfUnified == <<Acq("list")>> \o LocksOfValidate \o <<Rel("list")>>

\* The completion handler with the active-download lock taken under the
\* list-cache lock.
LocksOfCompletion_takes_download ==
    <<Acq("list"), Acq("download"), Rel("download"), Rel("list")>>

\* MediaManager._handle_download_completion.
LocksOfCompletion == <<Acq("list"), Rel("list")>>

\* MediaManager.get_download_status of a task that has just completed.
LocksOfStatus == <<Acq("download")>> \o LocksOfCompletion \o <<Rel("download")>>

\* DownloadProgressTracker.cancel_download: of a task it does not know, and
\* of one it knows, for which _remove_download takes the lock again.
LocksOfTrackerCancel(known) ==
    IF known
    THEN <<Acq("progress"), Acq("progress"), Rel("progress"), Rel("progress")>>
    ELSE <<Acq("progress"), Rel("progress")>>

\* MediaManager.cancel_download through JellyfinService.cancel_download.
LocksOfCancel(known) ==
    <<Acq("download")>> \o LocksOfTrackerCancel(known) \o <<Rel("download")>>

\* MediaManager.get_cached_image_path.
LocksOfImage == <<Acq("image"), Rel("image")>>

\* DownloadProgressTracker.update_progress.
LocksOfProgress == <<Acq("progress"), Rel("progress")>>

Operations ==
    {LocksOfValidate, LocksOfUnified, LocksOfCompletion, LocksOfStatus,
     LocksOfCancel(TRUE), LocksOfCancel(FALSE), LocksOfImage, LocksOfProgress}

Free == [owner |-> 0, count |-> 0]

NoOperation == [steps |-> <<>>, done |-> 0]

LockInit ==
    /\ lock_owner = [l \in Locks |-> Free]
    /\ thread_op = [th \in LockThreads |-> NoOperation]

HeldBy(th) == {l \in Locks : lock_owner[l].owner = th}

\* The next step of the thread's operation, if it has one.
HasStep(th) == thread_op[th].done < Len(thread_op[th].steps)

NextStep(th) == thread_op[th].steps[thread_op[th].done + 1]

\* The thread is at an acquire it cannot take now.
Waits(th, lock) ==
    /\ HasStep(th)
    /\ NextStep(th) = Acq(lock)
    /\ lock_owner[lock].owner # 0
    /\ lock_owner[lock].owner # th \/ lock \notin Reentrant

\* A request or worker thread enters an operation.
Begin(th, steps) ==
    /\ thread_op[th] = NoOperation
    /\ thread_op' = [thread_op EXCEPT ![th] = [steps |-> steps, done |-> 0]]
    /\ UNCHANGED <<lock_owner, beside_locks>>

\* with lock: the lock is taken when it is free, or again by its holder
\* when it is re-entrant.
Acquire(th) ==
    /\ HasStep(th)
    /\ NextStep(th).do = "acquire"
    /\ LET lock == NextStep(th).lock
       IN  /\ ~Waits(th, lock)
           /\ lock_owner' = [lock_owner EXCEPT
                   ![lock] = [owner |-> th, count |-> @.count + 1]]
    /\ thread_op' = [thread_op EXCEPT ![th].done = @ + 1]
    /\ UNCHANGED beside_locks

\* The end of a with block; after the last one the operation returns.
Release(th) ==
    /\ HasStep(th)
    /\ NextStep(th).do = "release"
    /\ LET lock == NextStep(th).lock
       IN  lock_owner' = [lock_owner EXCEPT
               ![lock] = IF @.count = 1 THEN Free
                         ELSE [@ EXCEPT !.count = @ - 1]]
    /\ thread_op' = [thread_op EXCEPT
            ![th] = IF @.done + 1 = Len(@.steps) THEN NoOperation
                    ELSE [@ EXCEPT !.done = @ + 1]]
    /\ UNCHANGED beside_locks

CatalogInit ==
    /\ FetchInit /\ MergeInit /\ ValidateInit /\ TrackerInit /\ CacheInit
    /\ OrphanInit /\ PoolInit /\ LockInit

\* ------------------------------------------------------------ specification
\* One download under every operation of the two services.
Init == InitWith({1}) /\ CatalogInit

Next ==
    \/ Authenticate
    \/ ClearAuthentication
    \/ Restart
    \/ \E r \in Requests, j \in JellyfinIds, final \in FinalDestinations :
          StartCheck(r, j, final)
    \/ \E r \in Requests : StartCreate(r)
    \/ \E r \in Requests : StartFinish(r)
    \/ \E r \in Requests, t \in TaskIds : CancelCheck(r, t)
    \/ \E r \in Requests : CancelMark(r)
    \/ \E r \in Requests : CancelFinish(r)
    \/ \E r \in Requests, todo \in SUBSET TaskIds : PollBegin(r, todo)
    \/ \E r \in Requests : PollUpdated(r)
    \/ \E t \in TaskIds : CleanupCompletedTask(t)
    \/ \E t \in TaskIds : WorkerRequest(t)
    \/ \E t \in TaskIds : WorkerCheck(t)
    \/ \E t \in TaskIds : WorkerChunk(t)
    \/ \E t \in TaskIds : WorkerValidate(t)
    \/ \E t \in TaskIds : WorkerFinalize(t)
    \/ \E t \in TaskIds : WorkerFinally(t)
    \/ \E t \in TaskIds : WorkerCallback(t)

Spec == Init /\ [][Next]_vars

\* One download with one request thread, in a process that keeps running:
\* every thread that can take a step does so in the end, and the client
\* keeps polling the status of the downloads.  cleanup_completed_downloads
\* is never called.
NextLive ==
    \/ Authenticate
    \/ \E j \in JellyfinIds, final \in FinalDestinations :
          StartCheck(Min(Requests), j, final)
    \/ StartCreate(Min(Requests))
    \/ StartFinish(Min(Requests))
    \/ \E t \in TaskIds : CancelCheck(Min(Requests), t)
    \/ CancelMark(Min(Requests))
    \/ CancelFinish(Min(Requests))
    \/ \E todo \in SUBSET TaskIds : PollBegin(Min(Requests), todo)
    \/ PollUpdated(Min(Requests))
    \/ \E t \in TaskIds : CleanupCompletedTask(t)
    \/ \E t \in TaskIds : WorkerRequest(t)
    \/ \E t \in TaskIds : WorkerCheck(t)
    \/ \E t \in TaskIds : WorkerChunk(t)
    \/ \E t \in TaskIds : WorkerValidate(t)
    \/ \E t \in TaskIds : WorkerFinalize(t)
    \/ \E t \in TaskIds : WorkerFinally(t)
    \/ \E t \in TaskIds : WorkerCallback(t)

WorkerStep ==
    \E t \in TaskIds :
        \/ WorkerRequest(t) \/ WorkerCheck(t) \/ WorkerChunk(t)
        \/ WorkerValidate(t) \/ WorkerFinalize(t) \/ WorkerFinally(t)
        \/ WorkerCallback(t)

RequestStep ==
    \/ StartCreate(Min(Requests)) \/ StartFinish(Min(Requests))
    \/ CancelMark(Min(Requests)) \/ CancelFinish(Min(Requests))
    \/ PollUpdated(Min(Requests))

SpecLive ==
    /\ Init /\ [][NextLive]_vars
    /\ WF_vars(WorkerStep)
    /\ WF_vars(RequestStep)
    /\ WF_vars(\E t \in TaskIds : CleanupCompletedTask(t))
    /\ WF_vars(\E todo \in SUBSET TaskIds : PollBegin(Min(Requests), todo))

\* One request thread making start calls one after another over two task
\* ids, the session coming and going, with the workers the calls start.
InitSequential == InitWith(TaskIds) /\ CatalogInit

NextSequential ==
    \/ Authenticate
    \/ ClearAuthentication
    \/ \E j \in JellyfinIds, final \in FinalDestinations :
          StartCheck(Min(Requests), j, final)
    \/ StartCreate(Min(Requests))
    \/ StartFinish(Min(Requests))
    \/ \E t \in TaskIds : WorkerRequest(t)
    \/ \E t \in TaskIds : WorkerCheck(t)
    \/ \E t \in TaskIds : WorkerChunk(t)
    \/ \E t \in TaskIds : WorkerValidate(t)
    \/ \E t \in TaskIds : WorkerFinalize(t)
    \/ \E t \in TaskIds : WorkerFinally(t)
    \/ \E t \in TaskIds : WorkerCallback(t)

SpecSequential == InitSequential /\ [][NextSequential]_vars

\* Two request threads racing to start downloads (kept where they are
\* downloaded) over two task ids, with the workers they start.
InitConcurrent == InitWith(TaskIds) /\ CatalogInit

NextConcurrent ==
    \/ Authenticate
    \/ \E r \in Requests, j \in JellyfinIds : StartCheck(r, j, None)
    \/ \E r \in Requests : StartCreate(r)
    \/ \E r \in Requests : StartFinish(r)
    \/ \E t \in TaskIds : WorkerRequest(t)
    \/ \E t \in TaskIds : WorkerCheck(t)
    \/ \E t \in TaskIds : WorkerChunk(t)
    \/ \E t \in TaskIds : WorkerValidate(t)
    \/ \E t \in TaskIds : WorkerFinalize(t)
    \/ \E t \in TaskIds : WorkerFinally(t)
    \/ \E t \in TaskIds : WorkerCallback(t)

SpecConcurrent == InitConcurrent /\ [][NextConcurrent]_vars

\* The remote catalogue fetched again and again from a source that answers
\* each page request as it likes.
TotalRecordCounts == 0..(PageSize * PageCap)

InitFetch == InitWith({}) /\ CatalogInit

NextFetch ==
    \/ Authenticate
    \/ FetchStart
    \/ \E n \in 0..PageSize, total \in TotalRecordCounts :
          FetchAttempt("ok", n, total, TRUE)
    \/ FetchAttempt("ok", 0, 0, FALSE)
    \/ \E outcome \in {"error", "unauthorized"} :
          FetchAttempt(outcome, 0, 0, FALSE)

SpecFetch == InitFetch /\ [][NextFetch]_vars


\* _merge_and_deduplicate applied to every pair of lists of at most
\* MaxItems local and MaxItems remote items.
InitMerge == InitWith({}) /\ CatalogInit

NextMerge ==
    \E local \in Lists(LocalItems), remote \in Lists(RemoteItems) :
        Merge(local, remote)

SpecMerge == InitMerge /\ [][NextMerge]_vars

\* validate_file_existence called on lists of the local files while files
\* come and go and time passes.
InitValidate == InitWith({}) /\ CatalogInit

NextValidate ==
    \/ \E items \in Batches, store_ok \in BOOLEAN :
          Validate(items, store_ok)
    \/ \E path \in Paths, state \in {Absent, NonEmpty, Broken} :
          FsChange(path, state)
    \/ Tick

SpecValidate == InitValidate /\ [][NextValidate]_vars

\* One request thread starting a download that stays where it is downloaded,
\* and the service being replaced by a new instance while the process runs.
InitReload == InitWith({1}) /\ CatalogInit

NextReload ==
    \/ Authenticate
    \/ \E j \in JellyfinIds : StartCheck(Min(Requests), j, None)
    \/ StartCreate(Min(Requests))
    \/ StartFinish(Min(Requests))
    \/ \E t \in TaskIds : WorkerRequest(t)
    \/ \E t \in TaskIds : WorkerCheck(t)
    \/ \E t \in TaskIds : WorkerChunk(t)
    \/ \E t \in TaskIds : WorkerValidate(t)
    \/ \E t \in TaskIds : WorkerFinalize(t)
    \/ \E t \in TaskIds : WorkerFinally(t)
    \/ \E t \in TaskIds : WorkerCallback(t)
    \/ Reload
    \/ \E t \in TaskIds, completed \in BOOLEAN : OrphanEnds(t, completed)

SpecReload == InitReload /\ [][NextReload]_vars

\* One validation call followed file by file.
InitPool == InitWith({}) /\ CatalogInit

NextPool ==
    \/ \E files \in [PoolPaths -> BOOLEAN],
          size \in {ConcurrentThreshold, MaxBatch} : PoolCall(files, size)
    \/ \E w \in PoolWorkers : Submit(w)
    \/ \E w \in Checkers : ExistsCheck(w) \/ CacheStore(w)
    \/ OtherValidates(1)
    \/ PoolFsChange(1)
    \/ PoolReturn

SpecPool == InitPool /\ [][NextPool]_vars

\* Two threads running the operations that take locks.
InitLocks == InitWith({}) /\ CatalogInit

NextLocks ==
    \E th \in LockThreads :
        \/ \E steps \in Operations : Begin(th, steps)
        \/ Acquire(th)
        \/ Release(th)

SpecLocks == InitLocks /\ [][NextLocks]_vars

\* The getters of the media lists under a passing clock, the remote server
\* reachable or not at each call.
InitCache == InitWith({}) /\ CatalogInit

NextCache ==
    \/ \E force_refresh, reachable \in BOOLEAN :
          get_remote_media_only(force_refresh, reachable)
    \/ \E force_refresh, reachable \in BOOLEAN :
          get_unified_media_list(force_refresh, reachable)
    \/ request_jellyfin_sync
    \/ \E force_validation \in BOOLEAN : LocalRefreshRead(force_validation)
    \/ LocalRefreshInstall
    \/ HandlerRescan
    \/ HandlerInvalidate
    \/ Tick

SpecCache == InitCache /\ [][NextCache]_vars

\* A request thread starting downloads and a worker thread reporting
\* progress, publishing task snapshots to subscribers that come and read.
InitTracker == InitWith({}) /\ CatalogInit

NextTracker ==
    \/ \E q \in Subscribers : Subscribe(q)
    \/ \E q \in Subscribers : Consume(q)
    \/ \E t \in TaskIds : start_download(Min(Requests), t)
    \/ \E t \in TaskIds : cancel_download(Min(Requests), t)
    \/ \E n \in WorkerThreads, t \in TaskIds : StartWorker(n, t)
    \/ \E n \in WorkerThreads, t \in TaskIds : _resume_download(n, t)
    \/ \E n \in WorkerThreads, t \in TaskIds : TrackerUpdate(n, t)
    \/ \E n \in WorkerThreads, t \in TaskIds, status \in {"completed", "failed"} :
          FinalStatus(n, t, status)
    \/ \E t \in TaskIds : _remove_download(t)
    \/ \E n \in Producers : _notify_subscribers(n)

SpecTracker == InitTracker /\ [][NextTracker]_vars

\* ------------------------------------------------------------- properties
\* C1: terminal status is absorbing: once the status of a task is COMPLETED or
\* FAILED, no step of a worker or of a request changes it to another value.
C1_TerminalAbsorbing ==
    [][\A t \in DOMAIN tasks :
          (is_finished(tasks[t]) /\ restarts' = restarts)
              => tasks'[t].status = tasks[t].status]_vars

Previous(j) ==
    IF /\ last_start[j] \in DOMAIN tasks
       /\ last_start[j] \in _download_tasks
       /\ is_active(tasks[last_start[j]])
    THEN last_start[j] ELSE NoId

\* A start call for medium j by request thread r gets past the checks of
\* download_media in this step.
Starts(r, j) ==
    /\ req[r].pc = "idle"
    /\ req'[r].op = "start"
    /\ req'[r].media = j

C5_OneActiveTaskPerMedia ==
    \A t, u \in _download_tasks :
        (is_active(tasks[t]) /\ is_active(tasks[u])
            /\ tasks[t].media_id = tasks[u].media_id) => t = u

\* No cancel of task t has returned True or is under way.
NotCancelled(t) ==
    /\ t \notin cancelled
    /\ \A r \in Requests : ~(req[r].op = "cancel" /\ req[r].task = t)

\* C6: a transfer with declared length L > 0 that is not cancelled and meets
\* no I/O error, and has received at least L bytes when it ends, leaves the
\* task COMPLETED with progress 1.0.
C6_FullLengthCompletes ==
    \A t \in DOMAIN tasks :
        (/\ worker[t].pc = "callback"
         /\ worker[t].total_size > 0
         /\ worker[t].downloaded_size >= worker[t].total_size
         /\ worker[t].outcome \notin {"cancelled", "error", "response_error"}
         /\ NotCancelled(t))
            => tasks[t].status = COMPLETED /\ tasks[t].progress = One

C8_ChainRunsOnce ==
    \A t \in DOMAIN tasks :
        tasks[t].completion_callback
            => /\ completions[t].started <= 1
               /\ (tasks[t].status = COMPLETED /\ worker[t].pc = "done")
                     => completions[t].started = 1

\* The completion chain runs for task t in this step, and its move or its
\* rescan fails.
ChainStepFails(t) ==
    /\ completions'[t].started = completions[t].started + 1
    /\ \/ completions'[t].cleared = completions[t].cleared
       \/ /\ tasks[t].final_destination # None
          /\ tasks'[t].file_path = tasks[t].file_path

\* C9: a failing step of the completion chain leaves a COMPLETED task
\* COMPLETED with progress 1.0, and a worker that ran the chain goes on to save
\* the download state and end.
C9_ChainFailureKeepsCompleted ==
    [][\A t \in DOMAIN tasks :
          (ChainStepFails(t) /\ tasks[t].status = COMPLETED)
              => /\ tasks'[t].status = COMPLETED
                 /\ tasks'[t].progress = One
                 /\ req' = req
                       => /\ worker'[t].pc = "done"
                          /\ saved_state' = SaveState(tasks', _download_tasks)]_vars

\* The worker of a COMPLETED task has ended after a chain in which both the
\* move to the final destination and the rescan failed.
C9_Witness ==
    \E t \in DOMAIN tasks :
        /\ tasks[t].status = COMPLETED
        /\ worker[t].pc = "done"
        /\ completions[t] = [started |-> 1, cleared |-> 0]
        /\ tasks[t].final_destination # None
        /\ tasks[t].file_path = Destination(tasks[t].media_id)

Errors == {metadata.errors[k] : k \in 1..Len(metadata.errors)}

FirstPageFailed == served # <<>> /\ ~served[1].ok

\* C11: get_media_library never raises, and a first page that fails all of
\* its retry attempts ends the call: it has returned, the item list is empty,
\* metadata.success is false and metadata.errors records the failed page; an
\* exception while a response is handled ends the call by returning too.
C11_FirstPageFailureReturnsEmpty ==
    /\ FirstPageFailed =>
          /\ fetch.pc = "returned"
          /\ media_items = <<>>
          /\ ~metadata.success
          /\ Error("page failed", 1) \in Errors
    /\ (\E e \in Errors : e.msg = "exception") => fetch.pc = "returned"

C11_Witness ==
    /\ FirstPageFailed
    /\ fetch.pc = "returned"
    /\ metadata.retry_attempts = max_page_retries

RECURSIVE ItemsOfPages(_)
ItemsOfPages(pages) ==
    IF pages = <<>>
    THEN <<>>
    ELSE ItemsOfPages(SubSeq(pages, 1, Len(pages) - 1)) \o
         SelectSeq(pages[Len(pages)].items, Supported)

JellyfinIdsOf(items) == [k \in 1..Len(items) |-> items[k].jellyfin_id]

\* C12: a page other than the first that exhausts its retries is skipped:
\* the offset cursor has advanced by one page size for every page before the
\* current one, partial_success is set once a later page was given up, and
\* the item list holds the converted items of exactly the pages that arrived
\* (pages 1, 2, 4 and 5 when page 3 fails).
C12_LaterPageFailureSkipped ==
    /\ fetch.pc = "page" => fetch.start_index = PageSize * (fetch.page_count - 1)
    /\ (fetch.failed_pages # <<>> /\ ~FirstPageFailed) => metadata.partial_success
    /\ JellyfinIdsOf(media_items) = ItemsOfPages(served)

C12_Witness ==
    /\ fetch.pc = "returned"
    /\ Len(served) = 5
    /\ \A k \in {1, 2, 4, 5} : served[k].ok
    /\ ~served[3].ok
    /\ metadata.partial_success
    /\ JellyfinIdsOf(media_items) = <<0, 1, 3, 6, 7, 9>>

\* C13: get_media_library terminates whatever the remote source does: the
\* pages it attempts never exceed the page count of the safety check (the
\* check lets the page after the last counted one through).
C13_PagesBounded == fetch.page_count <= MaxPages + 1

\* -------------------------------------------------- properties of the merge
Key(item) == _normalize_title(item.title)

ItemsOf(list) == {list[k] : k \in 1..Len(list)}

\* C14: for every local item and every remote item of the lists passed whose
\* normalized titles are equal, the list returned holds exactly one item of
\* that normalized title, and it has availability both, the local_path of the
\* local item and the jellyfin_id of the remote item.
C14_MatchingPairMergedOnce ==
    \A l \in ItemsOf(local_media), r \in ItemsOf(remote_media) :
        Key(l) = Key(r) =>
            /\ Cardinality({k \in 1..Len(unified_media) :
                               Key(unified_media[k]) = Key(l)}) = 1
            /\ \E u \in ItemsOf(unified_media) :
                  /\ Key(u) = Key(l)
                  /\ u.availability = BOTH
                  /\ u.local_path = l.local_path
                  /\ u.jellyfin_id = r.jellyfin_id

\* --------------------------------------------- properties of the validation
\* A step that is a validate_file_existence call, the call made and the
\* call before it.
Called ==
    _validation_stats'.total_validations = _validation_stats.total_validations + 1

ThisCall == validations'[1]

CallBefore == validations[1]

\* This call has the items of the call before, is within the TTL of it and no
\* file changed in between.
Repeated ==
    /\ Called
    /\ validations # <<>>
    /\ Set(ThisCall.batch) = Set(CallBefore.batch)
    /\ ThisCall.time - CallBefore.time < ValidationTtl
    /\ ~fs_touched

\* C15: a second validate call on the same items within the TTL and with no
\* filesystem change in between returns the same set of items and records
\* strictly more cache hits than the first call did.
C15_SecondCallMoreHits ==
    [][Repeated =>
          /\ Set(ThisCall.result) = Set(CallBefore.result)
          /\ ThisCall.hits > CallBefore.hits]_vars

\* C15 as the code has it: a second validate call on the same items within
\* the TTL of the first and with no filesystem change in between gives every
\* item the first call checked on the filesystem the same verdict and serves
\* those the first call found from the cache; if the first call trusted no
\* cache entry, both calls return the same set and the cache hits of the
\* second are the items the first returned.
C15_SecondCallServedFromCache ==
    [][Repeated =>
          /\ Set(ThisCall.result) \cap CallBefore.checked =
                 Set(CallBefore.result) \cap CallBefore.checked
          /\ (Set(CallBefore.result) \cap CallBefore.checked) \subseteq
                 ThisCall.trusted
          /\ CallBefore.hits = 0 =>
                 /\ Set(ThisCall.result) = Set(CallBefore.result)
                 /\ ThisCall.hits = Len(CallBefore.result)]_vars

C15_Witness ==
    /\ _validation_stats.total_validations = 2
    /\ validations[1].checked = {}
    /\ validations[1].hits = Len(validations[1].batch)
    /\ _validation_stats.cache_hits = validations[1].hits
    /\ ~fs_touched

\* C16: with TTL T, a path whose last filesystem check succeeded at t0 is
\* returned by a validate call at t with t - t0 < T without a filesystem
\* check, a path last checked at t0 with t - t0 >= T (or never) is checked
\* afresh, and a call trusts only entries whose check succeeded less than T
\* ago.
C16_TtlBoundsTrust ==
    [][Called =>
          \A path \in Set(ThisCall.batch) :
              LET t0 == last_check[path].time
                  recent == last_check[path].ok /\ now - t0 < ValidationTtl
              IN  /\ recent => /\ path \notin ThisCall.checked
                               /\ path \in Set(ThisCall.result)
                  /\ (t0 = 0 \/ now - t0 >= ValidationTtl) =>
                         path \in ThisCall.checked
                  /\ path \in ThisCall.trusted => recent]_vars

C16_Witness ==
    /\ _validation_stats.total_validations = 2
    /\ \E path \in validations[1].checked :
          /\ local_items[path].file_validated
          /\ validations[1].time - local_items[path].validation_timestamp
                 = ValidationTtl
          /\ path \notin Set(validations[1].result)
    /\ validations[1].hits = 0

Published(n) == notifier[n].pc = "notify" /\ notifier'[n].pc = "idle"

\* C18: when the publication of a snapshot ends, every subscriber of the list
\* whose queue the publisher found full is off the list, and every other
\* subscriber of the list got the snapshot once and stays on the list.
C18_FullDroppedOthersServed ==
    [][\A n \in Producers :
          Published(n) =>
              \A q \in Set(progress_subscribers) :
                  IF q \in notifier[n].full
                  THEN q \notin Set(progress_subscribers')
                  ELSE /\ q \in Set(progress_subscribers')
                       /\ Cardinality({k \in 1..Len(notifier[n].active_subscribers) :
                              notifier[n].active_subscribers[k] = q}) = 1]_vars


\* C19: while the remote source is reachable, a list returned by
\* get_unified_media_list or get_remote_media_only without force_refresh holds
\* no remote item fetched more than one TTL before the call.
FetchTimesOf(items) ==
    {t \in 1..Len(Revisions) :
        \E k \in 1..Len(items) : /\ items[k].availability # LOCAL_ONLY
                                 /\ items[k].jellyfin_id = Revisions[t]}

C19_RemoteAtMostOneTtlOld ==
    (returned.call \in {"unified", "remote"}
        /\ ~returned.force_refresh /\ returned.reachable)
    => \A fetched \in FetchTimesOf(returned.items) :
           returned.time - fetched <= _cache_ttl


\* C20: when download_media was called with a final_destination, the
\* completion callback of the task that has reached COMPLETED, finding the
\* downloaded file, moves it into final_destination and updates file_path
\* (shutil.move raising apart), also when the callback runs before
\* download_media has returned to its caller.
RequestedFinal(t) ==
    IF tasks[t].final_destination # None THEN tasks[t].final_destination
    ELSE IF \E r \in Requests : req[r].pc = "s_finish" /\ req[r].task = t
    THEN LET r == CHOOSE q \in Requests :
                      req[q].pc = "s_finish" /\ req[q].task = t
         IN  req[r].final
    ELSE None

CallbackRuns(t) ==
    /\ worker[t].pc = "callback"
    /\ worker'[t].pc = "done"
    /\ tasks[t].completion_callback
    /\ tasks[t].status = COMPLETED
    /\ HandlerFound(tasks[t])

C20_MovedToFinalDestination ==
    [][\A t \in TaskIds :
          (CallbackRuns(t) /\ RequestedFinal(t) # None)
          => \/ tasks'[t].file_path =
                    FinalPath(RequestedFinal(t), tasks[t].file_path)
             \/ /\ tasks[t].final_destination # None
                /\ UNCHANGED fs]_vars


\* C21: once a completion handler has rescanned and invalidated the caches,
\* no call of get_local_media_with_validation or get_unified_media_list begun
\* afterwards without force_refresh returns a local list read from the store
\* before that rescan.
ScansOf(items) ==
    {scan \in 1..Len(Scans) :
        \E k \in 1..Len(items) : /\ items[k].availability # REMOTE_ONLY
                                 /\ items[k].id = Scans[scan]}

C21_NoListFromBeforeRescan ==
    (returned.call \in {"local", "unified"} /\ ~returned.force_refresh)
    => \A scan \in ScansOf(returned.items) : scan >= returned.handled


\* C22: at any time at most one worker thread is running for a task_id and
\* its destination file, also after a new JellyfinService has been
\* constructed in the running process and has loaded the download state.
C22_OneWorkerPerTask ==
    \A t \in TaskIds :
        ~(/\ t \in DOMAIN orphans
          /\ Running(worker[t])
          /\ worker[t].destination = orphans[t].destination)


\* C23: every task of the live queue that is completed or failed is removed
\* from the queue in the end, without a call of cleanup_completed_downloads.
Evictable(t) ==
    /\ t \in _download_queue
    /\ t \in DOMAIN tasks
    /\ is_finished(tasks[t])

C23_TerminalEvicted ==
    \A t \in TaskIds : Evictable(t) ~> (t \notin _download_queue)


\* A step that ends with a call of _save_download_state: the creation of a
\* task in download_media, the end of a worker thread.
SaveStep ==
    \/ \E r \in Requests : req[r].pc = "s_create" /\ req'[r].pc = "s_finish"
    \/ \E t \in TaskIds : worker[t].pc = "callback" /\ worker'[t].pc = "done"

\* The durable record holds the tasks of the live map of the statuses given,
\* each under its task_id with the fields of the live task.
RecordHolds(statuses) ==
    /\ DOMAIN saved_state' =
          {t \in _download_tasks' : tasks'[t].status \in statuses}
    /\ \A t \in DOMAIN saved_state' :
          /\ saved_state'[t].media_id = tasks'[t].media_id
          /\ saved_state'[t].status = tasks'[t].status
          /\ saved_state'[t].progress = tasks'[t].progress
          /\ saved_state'[t].file_path = tasks'[t].file_path
          /\ saved_state'[t].final_destination = tasks'[t].final_destination

\* C24 as stated: after every save of the download state the durable record
\* holds exactly the pending and downloading tasks of the live map.
C24_RecordHoldsActiveOnly ==
    [][SaveStep => RecordHolds({PENDING, DOWNLOADING})]_vars

\* C24: after every save of the download state the durable record holds
\* exactly the pending, downloading and completed tasks of the live map, keyed
\* by task_id; failed tasks are not in it.
C24_RecordHoldsActiveAndCompleted ==
    [][SaveStep => RecordHolds({PENDING, DOWNLOADING, COMPLETED})]_vars

\* A worker has ended and the record saved at its end holds its completed
\* task.
C24_Witness ==
    \E t \in DOMAIN saved_state :
        /\ worker[t].pc = "done"
        /\ t \in DOMAIN tasks
        /\ tasks[t].status = COMPLETED
        /\ saved_state[t].status = COMPLETED


\* C25: a start call that was handed an existing task by the duplicate check
\* (a task entered in the queue by an earlier call) returns it with every
\* field unchanged, whatever final_destination the call passed.
ReturnsExisting(r) ==
    /\ req[r].pc = "s_finish"
    /\ req'[r].pc = "idle"
    /\ req[r].task \in _download_queue

C25_ExistingTaskUnchanged ==
    [][\A r \in Requests :
          ReturnsExisting(r) => tasks'[req[r].task] = tasks[req[r].task]]_vars


\* C26: a 401 on the initial response of a download stream ends the transfer
\* (the task is failed and the worker goes to its end without another
\* request) and leaves the service with its authentication state cleared.
Answered401(t) ==
    /\ worker[t].pc = "request"
    /\ worker'[t].pc = "finally"
    /\ tasks'[t].error_message = Unauthorized

C26_UnauthorizedClearsSession ==
    [][\A t \in DOMAIN tasks :
          Answered401(t) => /\ tasks'[t].status = FAILED
                            /\ ~authenticated']_vars

\* C27: once cancel_download has marked a DOWNLOADING task failed, its worker
\* writes at most one more chunk, and when the worker leaves its finally block
\* no file is left at its destination.
C27_CancelStopsWriting ==
    [][\A t \in TaskIds :
          /\ worker'[t].late <= 1
          /\ (/\ worker[t].late >= 0
              /\ worker[t].pc = "finally"
              /\ worker'[t].pc = "callback")
                => fs'[worker[t].destination] = Absent]_vars

\* C28: the snapshots of one task are put into each subscriber's queue in the
\* order in which their values were written, and no "starting" or
\* "downloading" snapshot of a task is put into a queue after a completed,
\* failed or cancelled snapshot of that task.
Put(q) == Len(subscriber_queue'[q]) > Len(subscriber_queue[q])

C28_SnapshotsInOrder ==
    [][\A q \in Subscribers :
          Put(q) =>
              LET data == subscriber_queue'[q][Len(subscriber_queue'[q])]
                  before == last_put[q][data.task_id]
              IN  /\ before.id < data.id
                  /\ before.status \in {"completed", "failed", "cancelled"}
                        => data.status \notin {"starting", "downloading"}]_vars

\* C29: when a page has been processed, every raw item of it whose conversion
\* failed has a warning in the metadata, the items of the page that convert
\* are all appended to the result, and a page without a failing item adds no
\* conversion warning (an item of an unsupported Type is dropped silently).
PageProcessed ==
    /\ Len(served') = Len(served) + 1
    /\ served'[Len(served')].ok

ConversionWarnings(md, page_count) ==
    SelectSeq(md.warnings,
              LAMBDA w : w = Error("Failed to convert item", page_count))

C29_FailedConversionWarned ==
    [][PageProcessed =>
          LET items == served'[Len(served')].items
              failed == SelectSeq(items, Raises)
          IN  /\ Len(ConversionWarnings(metadata', fetch.page_count))
                   = Len(failed)
              /\ media_items' = media_items \o Converted(items)]_vars

\* C30: every item of the lists passed to _merge_and_deduplicate whose
\* normalized title no item of the other list has is in the list returned,
\* with all its fields as passed.
C30_UnmatchedPassedThrough ==
    /\ \A l \in ItemsOf(local_media) :
          (\A r \in ItemsOf(remote_media) : Key(r) # Key(l))
              => l \in ItemsOf(unified_media)
    /\ \A r \in ItemsOf(remote_media) :
          (\A l \in ItemsOf(local_media) : Key(l) # Key(r))
              => r \in ItemsOf(unified_media)

\* C31: request_jellyfin_sync touches neither the remote cache nor its
\* timestamp, and the flag it sets is cleared only by a regeneration of the
\* unified list in which get_remote_media_only went to the remote source (it
\* was forced, or its cache was empty or older than the TTL).
C31_SyncClearedByFetch ==
    [][/\ (~_jellyfin_sync_requested /\ _jellyfin_sync_requested')
            => UNCHANGED <<_remote_media_cache, _remote_cache_timestamp>>
       /\ (_jellyfin_sync_requested /\ ~_jellyfin_sync_requested')
            => /\ returned'.call = "unified"
               /\ \/ returned'.force_refresh
                  \/ _remote_media_cache = <<>>
                  \/ ~CacheFresh(_remote_cache_timestamp, now)]_vars


\* C32: a path has an entry in the validation cache only if its most recent
\* existence check succeeded, once no check of that path is between its
\* stat and its write to the cache.
C32_CachedOnlyIfChecked ==
    \A path \in PoolPaths :
        (/\ pool_cache[path] # "none"
         /\ \A w \in Checkers :
                ~(single[w].pc = "store" /\ single[w].path = path))
            => pool_checked[path]


Elements(seq) == {seq[i] : i \in DOMAIN seq}

\* The call went through the pool and nothing but the call touched the
\* files or the cache while it ran.
PoolAlone ==
    /\ pool.pc = "returned"
    /\ pool.size > ConcurrentThreshold
    /\ ~pool.validating
    /\ ~pool.fs_changed

\* C33: for the same items and the same files, the pool, whatever the order
\* in which its futures finish, returns the same set of valid items and the
\* same set of missing paths as the sequential loop and leaves the same
\* validation cache.
C33_PoolAsSequential ==
    PoolAlone =>
        LET out == Sequentially(pool.size, pool_fs, pool.cache_before)
        IN  /\ Elements(pool.validated_items) = Elements(out.validated_items)
            /\ Elements(pool.missing_files) = Elements(out.missing_files)
            /\ Len(pool.validated_items) = Len(out.validated_items)
            /\ Len(pool.missing_files) = Len(out.missing_files)
            /\ pool_cache = out.cache

\* A call through the pool whose futures finished out of the order of the
\* list, with files found, files missing and an old entry popped.
C33_Witness ==
    /\ PoolAlone
    /\ pool.missing_files # <<>>
    /\ \E i \in DOMAIN pool.validated_items :
          /\ i + 1 \in DOMAIN pool.validated_items
          /\ pool.validated_items[i] > pool.validated_items[i + 1]
    /\ \E path \in PoolPaths :
          pool.cache_before[path] = "old" /\ pool_cache[path] = "none"


LockOrder == <<"download", "list", "progress", "validation", "stats", "image">>

Rank(lock) == CHOOSE i \in DOMAIN LockOrder : LockOrder[i] = lock

\* Two threads each hold a lock the other one waits for.
WaitCycle ==
    \E th, other \in LockThreads, a, b \in Locks :
        /\ th # other
        /\ a \in HeldBy(th) /\ Waits(th, b)
        /\ b \in HeldBy(other) /\ Waits(other, a)

C35_CancelReturns ==
    \A n \in Producers :
        /\ notifier[n].pc # "blocked"
        /\ progress_lock = n => notifier[n].pc = "notify"


\* C36: the side effects of completion (the move to final_destination, the
\* rescan, the invalidation of the caches) happen only for a task whose
\* status is COMPLETED: a callback run for a failed or cancelled task moves
\* no file and starts no rescan.
C36_SideEffectsOnlyIfCompleted ==
    [][\A t \in TaskIds :
          (/\ worker[t].pc = "callback"
           /\ worker'[t].pc = "done"
           /\ tasks[t].status # COMPLETED)
          => /\ completions'[t] = completions[t]
             /\ tasks'[t].file_path = tasks[t].file_path
             /\ UNCHANGED fs]_vars


\* C37: when the worker of a task ends with the task COMPLETED and its file
\* on disk, the completion handler runs (it starts a rescan and, with a
\* final_destination, moves the file there unless the move fails), for a
\* task loaded from the state file as for one started by download_media.
C37_ReloadedCompletesAlike ==
    [][\A t \in TaskIds :
          (/\ worker[t].pc = "callback"
           /\ worker'[t].pc = "done"
           /\ tasks[t].status = COMPLETED
           /\ HandlerFound(tasks[t]))
          => completions'[t].started = completions[t].started + 1]_vars


\* C38: a transfer that failed on its request, before it opened the
\* destination, leaves the file that was at the destination path as it was:
\* the end of the worker neither removes nor changes it (no other worker
\* being at work, the file is one the transfer found there).
C38_ExistingFileUntouched ==
    [][\A t \in TaskIds :
          (/\ worker[t].pc = "finally"
           /\ worker[t].outcome = "response_error"
           /\ worker'[t].pc = "callback"
           /\ \A u \in TaskIds \ {t} : worker[u].pc \in {"none", "done"})
          => fs'[worker[t].destination] = fs[worker[t].destination]]_vars


\* C39: a getter whose remote fetch fails leaves a remote list cached
\* before, and its timestamp, as they were, and a unified list it returns
\* still holds the remote items known before.
C39_FailedFetchKeepsCache ==
    [][(/\ returned'.call \in {"remote", "unified"}
        /\ ~returned'.reachable
        /\ _remote_media_cache # <<>>)
       => /\ UNCHANGED <<_remote_media_cache, _remote_cache_timestamp>>
          /\ \E k \in DOMAIN returned'.items :
                returned'.items[k].availability # LOCAL_ONLY]_vars


\* C40: whenever get_media_library has returned with metadata.success false,
\* the item list it returned is empty, whichever way the call ended.
C40_FailureReturnsNoItems ==
    (fetch.pc = "returned" /\ ~metadata.success) => media_items = <<>>

====
